---------------------------- MODULE Spec2Model ----------------------------
(***************************************************************************)
(* Model of the e-mail classification, the latest-reply extraction and the *)
(* Gmail-to-Telegram notifier of the emailmonitor repository.              *)
(*                                                                         *)
(*   src/email_jbhunt_prep.py   rule-driven classifier (classify and its   *)
(*                              helpers)                                   *)
(*   src/temp.py, src/temp2.py, src/temp2_filtered.py                      *)
(*                              MIME walk and latest-reply extraction      *)
(*   src/main.py, src/temp.py, src/temp2.py, src/temp2_filtered.py         *)
(*                              polling, notification, emails.json and the *)
(*                              decision callback                          *)
(*                                                                         *)
(* Python strings are TLA+ strings, read one character at a time with      *)
(* SubSeq.  A Python value of unknown type is a record [t, v] whose t is   *)
(* the Python type.  A raised exception is the value [t |-> "exc", ...].   *)
(***************************************************************************)
EXTENDS Integers, Sequences, FiniteSets, TLC

VARIABLES
    rules,      \* JBH_RULES, the rule configuration loaded at import time
    email,      \* the Email Record handed to classify
    result,     \* what classify returned (or raised); NoResult before the call
    variant,    \* which script's extractor runs: "temp", "temp2", "temp2_filtered"
    payload,    \* the MIME part tree handed to extract_latest_reply
    stack,      \* call stack of find_email_parts: one frame per active call
    extraction, \* what extract_latest_reply returned (or raised); NoResult before
    calls,      \* the classify calls the loop over emails has finished: <<[e, res]>>
    PROCESSED_EMAIL_IDS, \* the in-memory set of the notifier scripts
    emails_file,         \* emails.json: whether it exists, and its list of records
    poller,     \* the polling task: where it stands and its local variables
    gmail,      \* the mailbox: the threads whose last message is from the owner
    telegram,   \* per message id: notifications delivered, send calls that returned
    applied,    \* per message id: the last decision update_email_record stored
    run         \* the run of the script: its number, the ids loaded at startup

\* the state of the notifier scripts (main.py, temp.py, temp2.py, temp2_filtered.py)
notifierVars == <<PROCESSED_EMAIL_IDS, emails_file, poller, gmail, telegram, applied, run>>

vars == <<rules, email, result, variant, payload, stack, extraction, calls, notifierVars>>

-----------------------------------------------------------------------------
(* Python str primitives                                                   *)

Min(S) == CHOOSE m \in S : \A n \in S : m <= n
Max(S) == CHOOSE m \in S : \A n \in S : m >= n

\* s[a-1:b] for 1-based a and b: the characters a..b that s has
Slice(s, a, b) ==
    LET lo == IF a < 1 THEN 1 ELSE a
        hi == IF b > Len(s) THEN Len(s) ELSE b
    IN  IF lo > hi THEN "" ELSE SubSeq(s, lo, hi)

\* the character at 1-based position i, "" outside s
Ch(s, i) == Slice(s, i, i)

\* s[i-1:] for a 1-based i
From(s, i) == Slice(s, i, Len(s))

CharsOf(s) == { Ch(s, i) : i \in 1..Len(s) }

UpperAlpha == "ABCDEFGHIJKLMNOPQRSTUVWXYZ"
LowerAlpha == "abcdefghijklmnopqrstuvwxyz"
DigitChars == "0123456789"

UpperLetters == CharsOf(UpperAlpha)
Letters == UpperLetters \cup CharsOf(LowerAlpha)
Digits == CharsOf(DigitChars)
\* what \s matches and str.strip() removes, among the characters used here
Whitespace == {" ", "\n", "\t", "\r"}

\* str.lower() of one character
LowerCh(c) ==
    IF c \in UpperLetters
    THEN Ch(LowerAlpha, CHOOSE i \in 1..Len(UpperAlpha) : Ch(UpperAlpha, i) = c)
    ELSE c

\* str.lower(): character by character (split in halves to keep the
\* evaluation shallow)
RECURSIVE Lower(_)
Lower(s) ==
    IF Len(s) <= 1 THEN LowerCh(s)
    ELSE Lower(Slice(s, 1, Len(s) \div 2)) \o Lower(From(s, Len(s) \div 2 + 1))

\* s.startswith(p, i-1): p occurs in s at 1-based position i
OccursAt(s, p, i) == i >= 1 /\ i + Len(p) - 1 <= Len(s) /\ Slice(s, i, i + Len(p) - 1) = p

\* the 1-based positions where sub occurs in s
Occurrences(s, sub) == { i \in 1..(Len(s) - Len(sub) + 1) : OccursAt(s, sub, i) }

\* sub in s
Contains(s, sub) == Occurrences(s, sub) # {}

\* s.endswith(suf)
EndsWith(s, suf) == Len(suf) <= Len(s) /\ Slice(s, Len(s) - Len(suf) + 1, Len(s)) = suf

\* s.rfind(sub): 0-based index of the last occurrence, -1 when there is none
rfind(s, sub) == IF Contains(s, sub) THEN Max(Occurrences(s, sub)) - 1 ELSE -1

\* 1-based index of the last character of the longest run of characters of
\* class C that starts at i (i - 1 when s[i] is not in C): a greedy C*
RunEnd(s, i, C) ==
    LET stops == { k \in i..Len(s) : Ch(s, k) \notin C }
    IN  IF stops = {} THEN (IF i > Len(s) THEN i - 1 ELSE Len(s)) ELSE Min(stops) - 1

\* same, for the complement class: a greedy [^C]*
RunEndNot(s, i, C) ==
    LET stops == { k \in i..Len(s) : Ch(s, k) \in C }
    IN  IF stops = {} THEN (IF i > Len(s) THEN i - 1 ELSE Len(s)) ELSE Min(stops) - 1

\* s.lstrip(C), s.rstrip(C), s.strip()
LStrip(s, C) == From(s, RunEnd(s, 1, C) + 1)
RStrip(s, C) ==
    LET keep == { k \in 1..Len(s) : Ch(s, k) \notin C }
    IN  IF keep = {} THEN "" ELSE Slice(s, 1, Max(keep))
Strip(s) == RStrip(LStrip(s, Whitespace), Whitespace)

\* the first position k >= i of s that is in the set of positions P, 0 if none
NextIn(P, i) ==
    LET later == { k \in P : k >= i }
    IN  IF later = {} THEN 0 ELSE Min(later)

-----------------------------------------------------------------------------
(* Python values of unknown type, and exceptions                           *)

Str(s) == [t |-> "str", v |-> s]
PyInt(n) == [t |-> "int", v |-> n]
List(l) == [t |-> "list", v |-> l]
None == [t |-> "none", v |-> ""]
\* a key the dict does not hold
Missing == [t |-> "missing", v |-> ""]
Exc(name) == [t |-> "exc", v |-> name]
IsExc(x) == x.t = "exc"
IsStr(x) == x.t = "str"

\* bool(x)
Truthy(x) ==
    CASE x.t = "str" -> x.v # ""
      [] x.t = "int" -> x.v # 0
      [] x.t = "list" -> x.v # <<>>
      [] OTHER -> FALSE

\* d.get(key): None for a key the dict does not hold
Get(d, key) == IF d[key].t = "missing" THEN None ELSE d[key]

\* d.get(key) or ""
GetOrEmpty(d, key) == IF Truthy(Get(d, key)) THEN Get(d, key) ELSE Str("")

-----------------------------------------------------------------------------
(* strip_html                                                              *)

ScriptStyleNames == <<"script", "style">>

\* 1-based index of the last character of a match of
\*   (?is)<(script|style)[^>]*>.*?</\1>
\* that starts at i with tag name nm; 0 when there is none
ScriptStyleEndFor(s, i, nm) ==
    LET j == i + 1 + Len(nm)                  \* first character after the name
        gt == RunEndNot(s, j, {">"}) + 1      \* the > that ends the open tag
        closer == "</" \o nm \o ">"
        cs == { c \in (gt + 1)..(Len(s) - Len(closer) + 1) :
                  Lower(Slice(s, c, c + Len(closer) - 1)) = closer }
    IN  IF /\ OccursAt(s, "<", i)
           /\ Lower(Slice(s, i + 1, i + Len(nm))) = nm
           /\ j - 1 <= Len(s)
           /\ gt <= Len(s)
           /\ cs # {}
        THEN Min(cs) + Len(closer) - 1
        ELSE 0

ScriptStyleEnd(s, i) ==
    IF ScriptStyleEndFor(s, i, ScriptStyleNames[1]) # 0
    THEN ScriptStyleEndFor(s, i, ScriptStyleNames[1])
    ELSE ScriptStyleEndFor(s, i, ScriptStyleNames[2])

\* re.sub(r"(?is)<(script|style)[^>]*>.*?</\1>", " ", s), scanning from i
RECURSIVE SubScriptStyle(_, _)
SubScriptStyle(s, i) ==
    LET m == NextIn({ k \in Occurrences(s, "<") : ScriptStyleEnd(s, k) # 0 }, i)
    IN  IF m = 0 THEN From(s, i)
        ELSE Slice(s, i, m - 1) \o " " \o SubScriptStyle(s, ScriptStyleEnd(s, m) + 1)

\* 1-based index of the last character of a match of <[^>]+> at i; 0 when none
TagEnd(s, i) ==
    LET gt == RunEndNot(s, i + 1, {">"}) + 1
    IN  IF OccursAt(s, "<", i) /\ gt > i + 1 /\ gt <= Len(s) THEN gt ELSE 0

\* re.sub(r"(?is)<[^>]+>", " ", s), scanning from i
RECURSIVE SubTags(_, _)
SubTags(s, i) ==
    LET m == NextIn({ k \in Occurrences(s, "<") : TagEnd(s, k) # 0 }, i)
    IN  IF m = 0 THEN From(s, i)
        ELSE Slice(s, i, m - 1) \o " " \o SubTags(s, TagEnd(s, m) + 1)

\* the named character references of html.entities.html5 that the texts
\* used here can spell (each exists with and without its semicolon)
Html5Names == {"lt", "gt", "amp", "quot"}
Html5Value(nm) ==
    CASE nm = "lt" -> "<" [] nm = "gt" -> ">" [] nm = "amp" -> "&" [] nm = "quot" -> "\""
InHtml5(x) ==
    \/ x \in Html5Names
    \/ (Len(x) > 1 /\ Ch(x, Len(x)) = ";" /\ Slice(x, 1, Len(x) - 1) \in Html5Names)
Html5(x) ==
    IF x \in Html5Names THEN Html5Value(x) ELSE Html5Value(Slice(x, 1, Len(x) - 1))

\* characters that end a named character reference: [^\t\n\f <&#;]
CharrefStop == {"\t", "\n", "\f", " ", "<", "&", "#", ";"}
CharrefMaxName == 32

\* html._replace_charref(x) for a named reference x (the text after the &)
ReplaceCharref(x) ==
    IF InHtml5(x) THEN Html5(x)
    ELSE LET ks == { k \in 2..(Len(x) - 1) : InHtml5(Slice(x, 1, k)) }
         IN  IF ks # {} THEN Html5(Slice(x, 1, Max(ks))) \o From(x, Max(ks) + 1)
             ELSE "&" \o x

\* html.unescape(s), scanning from i (numeric references are not spelled by
\* any text used here)
\* a match of  &([^\t\n\f <&#;]{1,32};?)  at i: index of its last character,
\* 0 when there is none
CharrefEnd(s, i) ==
    LET runEnd == RunEndNot(s, i + 1, CharrefStop)
        nameEnd == IF runEnd - i > CharrefMaxName THEN i + CharrefMaxName ELSE runEnd
    IN  IF OccursAt(s, "&", i) /\ nameEnd > i
        THEN (IF OccursAt(s, ";", nameEnd + 1) THEN nameEnd + 1 ELSE nameEnd)
        ELSE 0

RECURSIVE Unescape(_, _)
Unescape(s, i) ==
    LET m == NextIn({ k \in Occurrences(s, "&") : CharrefEnd(s, k) # 0 }, i)
    IN  IF m = 0 THEN From(s, i)
        ELSE Slice(s, i, m - 1) \o ReplaceCharref(Slice(s, m + 1, CharrefEnd(s, m)))
             \o Unescape(s, CharrefEnd(s, m) + 1)

\* re.sub(r"\s+", " ", s), scanning from i
RECURSIVE CollapseWs(_, _)
CollapseWs(s, i) ==
    LET m == NextIn({ k \in 1..Len(s) : Ch(s, k) \in Whitespace }, i)
    IN  IF m = 0 THEN From(s, i)
        ELSE Slice(s, i, m - 1) \o " " \o CollapseWs(s, RunEnd(s, m, Whitespace) + 1)

\* strip_html(text): text is a Python value, the result a str
strip_html(text) ==
    IF ~IsStr(text) THEN ""
    ELSE LET t1 == SubScriptStyle(text.v, 1)
             t2 == SubTags(t1, 1)
             t3 == Unescape(t2, 1)
         IN  Strip(CollapseWs(t3, 1))

-----------------------------------------------------------------------------
(* find_urls and hosts                                                     *)

Quotes == {"'", "\""}
\* the characters that end a bare URL: [^\s<>"\)\]]
BareUrlStop == Whitespace \cup {"<", ">", "\"", ")", "]"}
\* u.rstrip('.,);]')
UrlTrailing == {".", ",", ")", ";", "]"}

\* a match of  href=['"]([^'"]+)['"]  (re.I) at i: 1-based index of its last
\* character, 0 when there is none; group 1 is s[i+6 .. end-1]
HrefEnd(s, i) ==
    LET runEnd == RunEndNot(s, i + 6, Quotes)
    IN  IF /\ i + 5 <= Len(s)
           /\ LowerCh(Ch(s, i)) = "h"
           /\ Lower(Slice(s, i, i + 4)) = "href="
           /\ Ch(s, i + 5) \in Quotes
           /\ runEnd >= i + 6
           /\ runEnd + 1 <= Len(s)
        THEN runEnd + 1
        ELSE 0

\* re.findall(r'href=[\'"]([^\'"]+)[\'"]', s, flags=re.I), scanning from i
RECURSIVE FindHrefs(_, _)
FindHrefs(s, i) ==
    LET m == NextIn({ k \in 1..Len(s) : HrefEnd(s, k) # 0 }, i)
    IN  IF m = 0 THEN <<>>
        ELSE <<Slice(s, m + 6, HrefEnd(s, m) - 1)>> \o FindHrefs(s, HrefEnd(s, m) + 1)

\* a match of  (https?://[^\s<>"\)\]]+)  (re.I) at i: 1-based index of its
\* last character, 0 when there is none
BareUrlEnd(s, i) ==
    LET start == IF Lower(Ch(s, i + 4)) = "s" THEN i + 5 ELSE i + 4   \* the ://
        runEnd == RunEndNot(s, start + 3, BareUrlStop)
    IN  IF /\ i + 3 <= Len(s)
           /\ LowerCh(Ch(s, i)) = "h"
           /\ Lower(Slice(s, i, i + 3)) = "http"
           /\ OccursAt(s, "://", start)
           /\ runEnd >= start + 3
        THEN runEnd
        ELSE 0

\* re.findall(r'(https?://[^\s<>"\)\]]+)', s, flags=re.I), scanning from i
RECURSIVE FindBareUrls(_, _)
FindBareUrls(s, i) ==
    LET m == NextIn({ k \in 1..Len(s) : BareUrlEnd(s, k) # 0 }, i)
    IN  IF m = 0 THEN <<>>
        ELSE <<Slice(s, m, BareUrlEnd(s, m))>> \o FindBareUrls(s, BareUrlEnd(s, m) + 1)

\* list(dict.fromkeys(l)): first occurrences, in order
RECURSIVE Dedupe(_)
Dedupe(l) ==
    IF l = <<>> THEN <<>>
    ELSE LET init == Dedupe(SubSeq(l, 1, Len(l) - 1))
             last == l[Len(l)]
         IN  IF \E k \in 1..Len(init) : init[k] = last THEN init ELSE Append(init, last)

\* find_urls(text): text is a Python value, the result a list of str
find_urls(text) ==
    IF ~IsStr(text) THEN <<>>
    ELSE LET urls == FindHrefs(text.v, 1) \o FindBareUrls(text.v, 1)
         IN  Dedupe([k \in 1..Len(urls) |-> RStrip(urls[k], UrlTrailing)])

\* the characters of a URL scheme after its first letter
SchemeChars == Letters \cup Digits \cup {"+", "-", "."}
\* what urlsplit removes from a URL before it parses it
UrlUnsafe == {"\t", "\r", "\n"}

RECURSIVE RemoveChars(_, _)
RemoveChars(s, C) ==
    LET m == NextIn({ k \in 1..Len(s) : Ch(s, k) \in C }, 1)
    IN  IF m = 0 THEN s ELSE Slice(s, 1, m - 1) \o RemoveChars(From(s, m + 1), C)

\* s.partition(c)[0] and s.partition(c)[2] for a one-character c
Before(s, c) == IF Contains(s, c) THEN Slice(s, 1, Min(Occurrences(s, c)) - 1) ELSE s
After(s, c) == IF Contains(s, c) THEN From(s, Min(Occurrences(s, c)) + 1) ELSE ""
\* s.rpartition(c)[2]
AfterLast(s, c) == IF Contains(s, c) THEN From(s, Max(Occurrences(s, c)) + 1) ELSE s

\* urlparse(u).hostname: "" stands for None and for the ValueError that
\* hosts() swallows (an unbalanced bracket in the network location)
UrlHostname(u) ==
    LET LowerHost(hostname, head) ==
            Lower(head) \o From(hostname, Len(head) + 1)
        OfHostname(hostname) == LowerHost(hostname, Before(hostname, "%"))
        OfHostinfo(hostinfo) ==
            OfHostname(IF Contains(hostinfo, "[")
                       THEN Before(After(hostinfo, "["), "]")
                       ELSE Before(hostinfo, ":"))
        OfNetloc(netloc) ==
            IF Contains(netloc, "[") # Contains(netloc, "]") THEN ""
            ELSE OfHostinfo(AfterLast(netloc, "@"))
        NetlocOf(rest, ends) ==
            IF ends = {} THEN rest ELSE Slice(rest, 1, Min(ends) - 1)
        OfRest(rest) ==
            OfNetloc(NetlocOf(rest, { k \in 1..Len(rest) : Ch(rest, k) \in {"/", "?", "#"} }))
        OfUrl(url) == IF ~OccursAt(url, "//", 1) THEN "" ELSE OfRest(From(url, 3))
        hasScheme(url0, colon) ==
            /\ colon > 1
            /\ Ch(url0, 1) \in Letters
            /\ \A k \in 1..(colon - 1) : Ch(url0, k) \in SchemeChars
        DropScheme(url0, colon) ==
            OfUrl(IF hasScheme(url0, colon) THEN From(url0, colon + 1) ELSE url0)
        OfClean(url0) ==
            DropScheme(url0, IF Contains(url0, ":") THEN Min(Occurrences(url0, ":")) ELSE 0)
    IN  OfClean(RemoveChars(LStrip(u, Whitespace), UrlUnsafe))

\* hosts(urls): the lower-cased host names, URLs without one skipped
RECURSIVE hosts(_)
hosts(urls) ==
    LET Appended(h) == IF h # "" THEN <<h>> ELSE <<>>
    IN  IF urls = <<>> THEN <<>>
        ELSE Appended(UrlHostname(urls[1])) \o hosts(Tail(urls))

-----------------------------------------------------------------------------
(* score_jbhunt                                                            *)

\* [A-Za-z0-9._%+\-] and [A-Za-z0-9.\-]
LocalChars == Letters \cup Digits \cup {".", "_", "%", "+", "-"}
DomainChars == Letters \cup Digits \cup {".", "-"}

\* group 2 of a match of  [A-Za-z0-9.\-]+\.[A-Za-z]{2,}  that starts at a;
\* "" when there is none.  The first part is greedy: it ends at the last dot
\* of the run that has a character before it and two letters after it.
DomainAt(s, a) ==
    LET b == RunEnd(s, a, DomainChars)
        ks == { k \in a..(b - 3) : /\ Ch(s, k + 1) = "."
                                   /\ Ch(s, k + 2) \in Letters
                                   /\ Ch(s, k + 3) \in Letters }
    IN  IF ks = {} THEN "" ELSE Slice(s, a, RunEnd(s, Max(ks) + 2, Letters))

\* m.group(2) of re.search(r'([A-Za-z0-9._%+\-]+)@([A-Za-z0-9.\-]+\.[A-Za-z]{2,})', s);
\* "" when m is None
FromDomainOf(s) ==
    LET ats == { p \in 2..Len(s) : /\ Ch(s, p) = "@"
                                   /\ Ch(s, p - 1) \in LocalChars
                                   /\ DomainAt(s, p + 1) # "" }
    IN  IF ats = {} THEN "" ELSE DomainAt(s, Min(ats) + 1)

\* any(pred(x) for x in seq), for the four evidence channels
\* line 63: from_domain and any(from_domain.endswith(d) for d in from_domains)
FromDomainEvidence(from_field, R) ==
    LET AnySuffix(from_domain) ==
            /\ from_domain # ""
            /\ \E k \in 1..Len(R.from_domains) : EndsWith(from_domain, R.from_domains[k])
    IN  AnySuffix(Lower(FromDomainOf(from_field)))

\* line 65: any(s in from_field for s in sender_names_contains)
SenderNameEvidence(from_field, R) ==
    \E k \in 1..Len(R.sender_names_contains) :
        Contains(from_field, R.sender_names_contains[k])

\* lines 68-69: any(any(tok in h for tok in url_host_contains) for h in url_hosts)
HostEvidence(body, R) ==
    LET AnyContains(url_hosts) ==
            \E h \in 1..Len(url_hosts) : \E k \in 1..Len(R.url_host_contains) :
                Contains(url_hosts[h], R.url_host_contains[k])
    IN  AnyContains(hosts(find_urls(body)))

\* lines 71-72: any(p.lower() in text_body for p in body_phrases)
PhraseEvidence(body, R) ==
    LET AnyIn(text_body) ==
            \E k \in 1..Len(R.body_phrases) : Contains(text_body, Lower(R.body_phrases[k]))
    IN  AnyIn(Lower(strip_html(body)))

\* Score with the phrase weight added once per matching phrase
Score_per_phrase(mail, R) ==
    LET Matching(text_body) ==
            { k \in 1..Len(R.body_phrases) : Contains(text_body, Lower(R.body_phrases[k])) }
        Sum(from_field, body) ==
            (IF FromDomainEvidence(from_field, R) THEN R.weights.from_domain ELSE 0)
            + (IF SenderNameEvidence(from_field, R) THEN R.weights.sender_name ELSE 0)
            + (IF HostEvidence(body, R) THEN R.weights.host ELSE 0)
            + Cardinality(Matching(Lower(strip_html(body)))) * R.weights.phrase
    IN  Sum(GetOrEmpty(mail, "from").v, GetOrEmpty(mail, "original_body"))

\* the local variable score of score_jbhunt at line 74 (from_field is a str)
Score(mail, R) ==
    LET Added(score, evidence, weight) == IF evidence THEN score + weight ELSE score
        Sum(from_field, body) ==
            Added(Added(Added(Added(0,
                FromDomainEvidence(from_field, R), R.weights.from_domain),
                SenderNameEvidence(from_field, R), R.weights.sender_name),
                HostEvidence(body, R), R.weights.host),
                PhraseEvidence(body, R), R.weights.phrase)
    IN  Sum(GetOrEmpty(mail, "from").v, GetOrEmpty(mail, "original_body"))

\* score_jbhunt with a strict comparison at line 74
score_jbhunt_strict(mail, R) ==
    IF ~IsStr(GetOrEmpty(mail, "from")) THEN Exc("TypeError")
    ELSE [t |-> "bool", v |-> Score(mail, R) > R.threshold]

\* score_jbhunt(email): a bool, or the TypeError re.search raises when the
\* from field is a truthy value that is not a str
score_jbhunt(mail, R) ==
    IF ~IsStr(GetOrEmpty(mail, "from")) THEN Exc("TypeError")
    ELSE [t |-> "bool", v |-> Score(mail, R) >= R.threshold]

-----------------------------------------------------------------------------
(* subject_category, extract_load_ids, stamp_position, classify            *)

\* The regular expressions of the rule file are kept as their text.  The
\* category patterns used here are alternations of literal words
\* (w1|w2|...), the identifier pattern a literal prefix followed by \d+,
\* with or without a capturing group around the digits.

\* pat.split("|")
RECURSIVE Alternatives(_)
Alternatives(pat) ==
    IF Contains(pat, "|")
    THEN <<Before(pat, "|")>> \o Alternatives(After(pat, "|"))
    ELSE <<pat>>

\* the literal prefix of an identifier pattern and whether it has a group
IdPrefix(pat) ==
    LET stops == { k \in 1..Len(pat) : Ch(pat, k) \in {"(", "\\"} }
    IN  IF stops = {} THEN pat ELSE Slice(pat, 1, Min(stops) - 1)
IdHasGroup(pat) == Contains(pat, "(")

\* a match of  prefix\d+  at i: index of its last character, 0 when none
IdEnd(s, i, prefix) ==
    LET runEnd == RunEnd(s, i + Len(prefix), Digits)
    IN  IF OccursAt(s, prefix, i) /\ runEnd >= i + Len(prefix) THEN runEnd ELSE 0

\* re.search(pat, s) is not None
ReSearch(pat, s) ==
    IF Contains(pat, "\\d")
    THEN \E k \in 1..Len(s) : IdEnd(s, k, IdPrefix(pat)) # 0
    ELSE \E k \in 1..Len(Alternatives(pat)) : Contains(s, Alternatives(pat)[k])

\* subject_patterns is a dict whose keys keep the order of the rule file: a
\* sequence of [key, pat] with distinct keys
HasKey(pats, key) == \E k \in 1..Len(pats) : pats[k].key = key
Lookup(pats, key) == pats[CHOOSE k \in 1..Len(pats) : pats[k].key = key].pat

\* CategoryFrom without the skip of the reserved entry
RECURSIVE CategoryFrom_no_skip(_, _, _)
CategoryFrom_no_skip(pats, s, k) ==
    IF k > Len(pats) THEN "OTHER"
    ELSE IF ReSearch(pats[k].pat, s) THEN pats[k].key
    ELSE CategoryFrom_no_skip(pats, s, k + 1)

\* the for loop of subject_category over pats[k..], s the lowered subject
RECURSIVE CategoryFrom(_, _, _)
CategoryFrom(pats, s, k) ==
    IF k > Len(pats) THEN "OTHER"
    ELSE IF pats[k].key = "ID_PATTERN" THEN CategoryFrom(pats, s, k + 1)
    ELSE IF ReSearch(pats[k].pat, s) THEN pats[k].key
    ELSE CategoryFrom(pats, s, k + 1)

\* subject_category that answers OTHER for an empty subject without a look at
\* the patterns
subject_category_blank_other(subject, R) ==
    IF Truthy(subject) /\ ~IsStr(subject) THEN Exc("AttributeError")
    ELSE IF ~Truthy(subject) THEN Str("OTHER")
    ELSE Str(CategoryFrom(R.subject_patterns, Lower(subject.v), 1))

\* subject_category(subject): a str, or the AttributeError of .lower() on a
\* truthy value that is not a str
subject_category(subject, R) ==
    IF Truthy(subject) /\ ~IsStr(subject) THEN Exc("AttributeError")
    ELSE LET s == IF Truthy(subject) THEN Lower(subject.v) ELSE ""
         IN  Str(CategoryFrom(R.subject_patterns, s, 1))

\* pat.findall(s), scanning from i: group 1 of each match when the pattern
\* has a group, the whole match otherwise
RECURSIVE FindAllIds(_, _, _)
FindAllIds(pat, s, i) ==
    LET m == NextIn({ k \in 1..Len(s) : IdEnd(s, k, IdPrefix(pat)) # 0 }, i)
        e == IdEnd(s, m, IdPrefix(pat))
    IN  IF m = 0 THEN <<>>
        ELSE <<Slice(s, IF IdHasGroup(pat) THEN m + Len(IdPrefix(pat)) ELSE m, e)>>
             \o FindAllIds(pat, s, e + 1)

\* extract_load_ids applied to the lowered subject
extract_load_ids_lowered(subject, R) ==
    IF ~HasKey(R.subject_patterns, "ID_PATTERN") THEN Exc("KeyError")
    ELSE IF Truthy(subject) /\ ~IsStr(subject) THEN Exc("TypeError")
    ELSE List(FindAllIds(Lookup(R.subject_patterns, "ID_PATTERN"),
                         IF Truthy(subject) THEN Lower(subject.v) ELSE "", 1))

\* extract_load_ids(subject): a list, or the KeyError of a rule set without
\* its ID_PATTERN entry, or the TypeError of findall on a non-str
extract_load_ids(subject, R) ==
    IF ~HasKey(R.subject_patterns, "ID_PATTERN") THEN Exc("KeyError")
    ELSE IF Truthy(subject) /\ ~IsStr(subject) THEN Exc("TypeError")
    ELSE List(FindAllIds(Lookup(R.subject_patterns, "ID_PATTERN"),
                         IF Truthy(subject) THEN subject.v ELSE "", 1))

\* the bucket limits 0.2 and 0.7, in tenths
HeaderTenths == 2
BodyTenths == 7

\* stamp_position with the header limit included (frac <= 0.2)
stamp_position_inclusive(text_body, R) ==
    LET t == Lower(text_body)
        inds == R.footer_indicators
        idxs == { rfind(t, Lower(inds[k])) :
                    k \in { j \in 1..Len(inds) : Contains(t, Lower(inds[j])) } }
        pos == Max(idxs)
        n == IF Len(t) > 1 THEN Len(t) ELSE 1
    IN  IF idxs = {} THEN "None"
        ELSE IF 10 * pos <= HeaderTenths * n THEN "header"
        ELSE IF 10 * pos < BodyTenths * n THEN "body"
        ELSE "footer"

\* stamp_position that buckets the smallest of the collected indices
stamp_position_min(text_body, R) ==
    LET t == Lower(text_body)
        inds == R.footer_indicators
        idxs == { rfind(t, Lower(inds[k])) :
                    k \in { j \in 1..Len(inds) : Contains(t, Lower(inds[j])) } }
        pos == Min(idxs)
        n == IF Len(t) > 1 THEN Len(t) ELSE 1
    IN  IF idxs = {} THEN "None"
        ELSE IF 10 * pos < HeaderTenths * n THEN "header"
        ELSE IF 10 * pos < BodyTenths * n THEN "body"
        ELSE "footer"

\* stamp_position(text_body) for a str text_body; "None" stands for None.
\* pos / max(len(t), 1) < 0.2 is compared as 10 * pos < 2 * max(len(t), 1).
stamp_position(text_body, R) ==
    LET t == Lower(text_body)
        inds == R.footer_indicators
        idxs == { rfind(t, Lower(inds[k])) :
                    k \in { j \in 1..Len(inds) : Contains(t, Lower(inds[j])) } }
        pos == Max(idxs)
        n == IF Len(t) > 1 THEN Len(t) ELSE 1
    IN  IF idxs = {} THEN "None"
        ELSE IF 10 * pos < HeaderTenths * n THEN "header"
        ELSE IF 10 * pos < BodyTenths * n THEN "body"
        ELSE "footer"

InSeq(x, seq) == \E k \in 1..Len(seq) : seq[k] = x

NoSignalReason == "No strong subject signal."
ActionReason(cat) == "Subject category '" \o cat \o "' indicates action is needed."
InfoReason(cat) == "Subject category '" \o cat \o "' is informational."

\* ReplyVerdict with the two membership tests in the other order
ReplyVerdict_false_first(cat, R) ==
    IF InSeq(cat, R.reply_rules.false_if)
    THEN [needs |-> "False", reason |-> InfoReason(cat)]
    ELSE IF InSeq(cat, R.reply_rules.true_if)
    THEN [needs |-> "True", reason |-> ActionReason(cat)]
    ELSE [needs |-> "None", reason |-> NoSignalReason]

\* ReplyVerdict whose informational branch forgets to set the reason
ReplyVerdict_stale_reason(cat, R) ==
    IF InSeq(cat, R.reply_rules.true_if)
    THEN [needs |-> "True", reason |-> ActionReason(cat)]
    ELSE IF InSeq(cat, R.reply_rules.false_if)
    THEN [needs |-> "False", reason |-> NoSignalReason]
    ELSE [needs |-> "None", reason |-> NoSignalReason]

\* lines 104-109 of classify: needs_response_pred and reason
ReplyVerdict(cat, R) ==
    IF InSeq(cat, R.reply_rules.true_if)
    THEN [needs |-> "True", reason |-> ActionReason(cat)]
    ELSE IF InSeq(cat, R.reply_rules.false_if)
    THEN [needs |-> "False", reason |-> InfoReason(cat)]
    ELSE [needs |-> "None", reason |-> NoSignalReason]

\* classify(email): the result dict, or the exception that escapes
classify(mail, R) ==
    LET Result(is_jbh, cat, ids, stamp_pos, verdict) ==
            IF IsExc(is_jbh) THEN is_jbh
            ELSE IF IsExc(cat) THEN cat
            ELSE IF IsExc(ids) THEN ids
            ELSE [t |-> "result",
                  is_jbhunt |-> is_jbh.v,
                  subject_category |-> cat.v,
                  load_ids |-> ids.v,
                  company_stamp_position |-> stamp_pos,
                  needs_response_pred |-> verdict.needs,
                  reason |-> verdict.reason]
        WithCategory(subj, cat) ==
            Result(score_jbhunt(mail, R), cat, extract_load_ids(subj, R),
                   stamp_position(strip_html(GetOrEmpty(mail, "original_body")), R),
                   ReplyVerdict(cat.v, R))
        OfSubject(subj) == WithCategory(subj, subject_category(subj, R))
    IN  OfSubject(GetOrEmpty(mail, "subject"))

NoResult == [t |-> "noresult"]

-----------------------------------------------------------------------------
(* Latest-reply extraction: decoding and the MIME walk                     *)
(* (temp.py, temp2.py, temp2_filtered.py)                                  *)

Variants == {"temp", "temp2", "temp2_filtered"}

\* part["body"]["data"] is kept by how it decodes, not by its characters:
\*   none      the key is absent (or its value is empty)
\*   b64url    base64url with its padding; text is what it encodes
\*   unpadded  base64url whose padding was dropped; text is what it encodes
\*   bad       a string neither decoder accepts, such as "a"; text is the
\*             string itself
NoData == [enc |-> "none", text |-> ""]
B64(t) == [enc |-> "b64url", text |-> t]
Unpadded(t) == [enc |-> "unpadded", text |-> t]
Undecodable(raw) == [enc |-> "bad", text |-> raw]

\* `if data:`
HasData(data) == data.enc # "none"

Decoded(t) == [ok |-> TRUE, text |-> t]
\* the exception is binascii.Error
DecodeRaised == [ok |-> FALSE, text |-> "binascii.Error"]

\* temp.py _decode_base64url: pads and decodes, else decodes as standard
\* base64, else returns the data as they are
decode_base64url(data) ==
    IF ~HasData(data) THEN Decoded("") ELSE Decoded(data.text)

\* base64.urlsafe_b64decode(data).decode("utf-8", errors="replace")
urlsafe_b64decode(data) ==
    IF data.enc \in {"none", "b64url"} THEN Decoded(data.text) ELSE DecodeRaised

\* the decoding each script applies to a part's data
Decode(v, data) ==
    IF v = "temp" THEN decode_base64url(data) ELSE urlsafe_b64decode(data)

\* body = {"plain": "", "html": ""}
EmptyBody == [plain |-> "", html |-> ""]

\* body[field] = body[field] or text
Fill(body, field, text) ==
    IF body[field] # "" THEN body ELSE [body EXCEPT ![field] = text]

\* a value that may be a raised exception: ok with the body dict, or not
Walked(body) == [ok |-> TRUE, body |-> body]
WalkRaised == [ok |-> FALSE, body |-> EmptyBody]

\* the merge of a nested call's result into the caller's body
\* (temp.py 152-155, temp2.py 158-159, temp2_filtered.py 149-150)
MergeNested(body, nested) ==
    Fill(Fill(body, "plain", nested.plain), "html", nested.html)

\* OwnContent with the tests `not body[...]` left out
OwnContent_unguarded(v, part, body) ==
    LET Put(field, d) ==
            IF d.ok THEN Walked([body EXCEPT ![field] = d.text]) ELSE WalkRaised
    IN  IF ~HasData(part.data) THEN Walked(body)
        ELSE IF part.mimeType = "text/plain" THEN Put("plain", Decode(v, part.data))
        ELSE IF part.mimeType = "text/html" THEN Put("html", Decode(v, part.data))
        ELSE IF v = "temp" /\ part.mimeType = "message/rfc822"
        THEN Put("plain", Decode(v, part.data))
        ELSE Walked(body)

\* what a part's own mimeType and data add to body
\* (temp.py 156-175, temp2.py 161-167, temp2_filtered.py 151-155)
OwnContent(v, part, body) ==
    LET Put(field, d) ==
            IF d.ok THEN Walked([body EXCEPT ![field] = d.text]) ELSE WalkRaised
        PutOr(field, d) ==
            IF d.ok THEN Walked(Fill(body, field, d.text)) ELSE WalkRaised
    IN  IF v = "temp2_filtered"
        THEN \* the data of a part of any type are decoded
             IF ~HasData(part.data) THEN Walked(body)
             ELSE IF part.mimeType = "text/plain" THEN PutOr("plain", Decode(v, part.data))
             ELSE IF part.mimeType = "text/html" THEN PutOr("html", Decode(v, part.data))
             ELSE IF Decode(v, part.data).ok THEN Walked(body) ELSE WalkRaised
        ELSE IF part.mimeType = "text/plain" /\ body.plain = ""
        THEN IF HasData(part.data) THEN Put("plain", Decode(v, part.data)) ELSE Walked(body)
        ELSE IF part.mimeType = "text/html" /\ body.html = ""
        THEN IF HasData(part.data) THEN Put("html", Decode(v, part.data)) ELSE Walked(body)
        ELSE IF /\ v = "temp"
                /\ part.mimeType = "message/rfc822"
                /\ HasData(part.data)
                /\ body.plain = ""
        THEN Put("plain", Decode(v, part.data))
        ELSE Walked(body)

-----------------------------------------------------------------------------
(* Latest-reply extraction: cleaning                                       *)

\* BeautifulSoup(html, "html.parser") is modelled for documents made of
\* start tags, end tags and text, without comments, character references,
\* script or style: the document is the sequence of its tags and strings,
\* an element is the index of its start tag.

TagNameChars == Letters \cup Digits
\* elements html.parser never leaves open
VoidTags == {"br", "hr", "img"}

\* a start tag or an end tag begins at position i
TagAt(s, i) ==
    /\ Ch(s, i) = "<"
    /\ \/ Ch(s, i + 1) \in Letters
       \/ Ch(s, i + 1) = "/" /\ Ch(s, i + 2) \in Letters
    /\ \E k \in (i + 1)..Len(s) : Ch(s, k) = ">"

\* the tag that begins at i: its name in lower case, the text of its attributes
TagToken(s, i) ==
    LET Built(closing, ns, ne, gt) ==
            [kind |-> IF closing THEN "close" ELSE "open",
             name |-> Lower(Slice(s, ns, ne)),
             attrs |-> Slice(s, ne + 1, gt - 1),
             text |-> "",
             stop |-> gt]
        Named(closing, ns, ne) ==
            Built(closing, ns, ne, Min({ k \in (ne + 1)..Len(s) : Ch(s, k) = ">" }))
        NameFrom(closing, ns) == Named(closing, ns, RunEnd(s, ns, TagNameChars))
    IN  IF Ch(s, i + 1) = "/" THEN NameFrom(TRUE, i + 2) ELSE NameFrom(FALSE, i + 1)

\* the string that begins at i and runs to the next tag
TextToken(s, i) ==
    LET To(e) == [kind |-> "text", name |-> "", attrs |-> "",
                  text |-> Slice(s, i, e), stop |-> e]
        UpTo(n) == To(IF n = 0 THEN Len(s) ELSE n - 1)
    IN  UpTo(NextIn({ k \in (i + 1)..Len(s) : TagAt(s, k) }, i + 1))

RECURSIVE HtmlTokens(_, _)
HtmlTokens(s, i) ==
    LET Then(tok) == <<tok>> \o HtmlTokens(s, tok.stop + 1)
    IN  IF i > Len(s) THEN <<>>
        ELSE IF TagAt(s, i) THEN Then(TagToken(s, i))
        ELSE Then(TextToken(s, i))

Range(f) == { f[k] : k \in DOMAIN f }

\* the elements open after the first j tokens, outermost first: an end tag
\* closes the innermost open element of its name and all inside it
RECURSIVE OpenAfter(_, _)
OpenAfter(toks, j) ==
    LET Step(open, t) ==
            IF t.kind = "open" /\ t.name \notin VoidTags THEN Append(open, j)
            ELSE IF t.kind = "close" /\ \E k \in 1..Len(open) : toks[open[k]].name = t.name
            THEN [k \in 1..(Max({ m \in 1..Len(open) : toks[open[m]].name = t.name }) - 1)
                    |-> open[k]]
            ELSE open
    IN  IF j = 0 THEN <<>> ELSE Step(OpenAfter(toks, j - 1), toks[j])

\* the elements each token lies in
Ancestors(toks) == [j \in 1..Len(toks) |-> Range(OpenAfter(toks, j - 1))]

RECURSIVE Join(_, _)
Join(strings, sep) ==
    IF strings = <<>> THEN ""
    ELSE IF Len(strings) = 1 THEN strings[1]
    ELSE strings[1] \o sep \o Join(Tail(strings), sep)

\* element.get_text()
ElementText(toks, anc, e) ==
    Join([j \in 1..Len(toks) |->
            IF toks[j].kind = "text" /\ e \in anc[j] THEN toks[j].text ELSE ""], "")

NonEmpty(x) == x # ""

\* soup.get_text(separator="\n", strip=True) once the elements of `gone`
\* were decomposed
VisibleText(toks, anc, gone) ==
    Join(SelectSeq([j \in 1..Len(toks) |->
                      IF toks[j].kind = "text" /\ anc[j] \cap gone = {}
                      THEN Strip(toks[j].text) ELSE ""], NonEmpty), "\n")

\* the value of the class attribute holds the class cls
HasClass(attrs, cls) ==
    LET Among(value) ==
            \E a \in 1..Len(value) :
                /\ OccursAt(value, cls, a)
                /\ (a = 1 \/ Ch(value, a - 1) \in Whitespace)
                /\ (a + Len(cls) > Len(value) \/ Ch(value, a + Len(cls)) \in Whitespace)
        ValueAt(starts) ==
            IF starts = {} THEN FALSE
            ELSE Among(Before(From(attrs, Min(starts) + 7), "\""))
    IN  ValueAt(Occurrences(Lower(attrs), "class=\""))

Blockquotes(toks) ==
    { e \in 1..Len(toks) : toks[e].kind = "open" /\ toks[e].name = "blockquote" }

\* temp.py 194-197: the blockquotes whose text holds a reply marker
MarkedBlockquotes(toks, anc) ==
    { e \in Blockquotes(toks) :
        \E m \in {"wrote:", "from:"} : Contains(Lower(ElementText(toks, anc, e)), m) }

\* soup.find("div", class_="gmail_quote") once `gone` was decomposed: the
\* first such div still in the document, if any
GmailQuote(toks, anc, gone) ==
    LET First(divs) == IF divs = {} THEN {} ELSE {Min(divs)}
    IN  First({ e \in 1..Len(toks) :
                  /\ toks[e].kind = "open"
                  /\ toks[e].name = "div"
                  /\ HasClass(toks[e].attrs, "gmail_quote")
                  /\ e \notin gone
                  /\ anc[e] \cap gone = {} })

\* the cleaned text of an HTML body
\* (temp.py 193-201, temp2.py 187-190, temp2_filtered.py 169-171)
HtmlReply(v, html) ==
    LET Without(toks, anc, gone) ==
            VisibleText(toks, anc,
                        IF v = "temp2_filtered" THEN gone
                        ELSE gone \cup GmailQuote(toks, anc, gone))
        In(toks, anc) ==
            Without(toks, anc,
                    IF v = "temp" THEN MarkedBlockquotes(toks, anc) ELSE Blockquotes(toks))
        Of(toks) == In(toks, Ancestors(toks))
    IN  Of(HtmlTokens(html, 1))

\* a match of \n_+\n begins at i
UnderscoreLineAt(s, i) ==
    /\ Ch(s, i) = "\n"
    /\ Ch(s, i + 1) = "_"
    /\ Ch(s, RunEnd(s, i + 1, {"_"}) + 1) = "\n"

\* a match of \nOn .* wrote:\n begins at i
WroteLineAt(s, i) ==
    LET EndsAt(nl) == nl # 0 /\ nl - 7 >= i + 4 /\ Slice(s, nl - 7, nl - 1) = " wrote:"
    IN  /\ OccursAt(s, "\nOn ", i)
        /\ EndsAt(NextIn({ k \in (i + 4)..Len(s) : Ch(s, k) = "\n" }, i + 4))

\* PlainHead cutting at the last match instead of the first
PlainHead_last_match(plain) ==
    LET Cut(at) == IF at = {} THEN plain ELSE Slice(plain, 1, Max(at) - 1)
    IN  Cut({ i \in 1..Len(plain) : UnderscoreLineAt(plain, i) \/ WroteLineAt(plain, i) })

\* re.split(r'\n_+\n|\nOn .* wrote:\n', plain, 1)[0]
PlainHead(plain) ==
    LET Cut(at) == IF at = {} THEN plain ELSE Slice(plain, 1, Min(at) - 1)
    IN  Cut({ i \in 1..Len(plain) : UnderscoreLineAt(plain, i) \/ WroteLineAt(plain, i) })

Placeholder == "(No readable content found)"

\* Returned with the plain text preferred as original_body
Returned_plain_first(body, original_body, clean_reply) ==
    [t |-> "result", body_parts |-> body,
     original_body |-> IF body.plain # "" THEN body.plain ELSE original_body,
     clean_reply |-> clean_reply]

Returned(body, original_body, clean_reply) ==
    [t |-> "result", body_parts |-> body,
     original_body |-> original_body, clean_reply |-> clean_reply]

\* extract_latest_reply from original_body on
\* (temp.py 189-211, temp2.py 183-198, temp2_filtered.py 166-174)
Cleaned(v, body) ==
    LET OrPlaceholder(cleaned) == IF cleaned = "" THEN Placeholder ELSE cleaned
        \* temp.py 208, temp2.py 195: fall back to the raw plain text
        OrPlain(cleaned) ==
            IF /\ \/ v = "temp" /\ cleaned = ""
                  \/ v = "temp2" /\ Strip(cleaned) = ""
               /\ body.plain # ""
            THEN Strip(body.plain) ELSE cleaned
        First ==
            IF body.html # "" THEN HtmlReply(v, body.html)
            ELSE IF body.plain # "" THEN Strip(PlainHead(body.plain))
            ELSE ""
    IN  Returned(body, IF body.html # "" THEN body.html ELSE body.plain,
                 OrPlaceholder(OrPlain(First)))

\* the exception that escapes extract_latest_reply
Raised == [t |-> "exc", body_parts |-> EmptyBody,
           original_body |-> "", clean_reply |-> "binascii.Error"]

\* find_email_parts(parts) as the recursive function it is, body being the
\* local dict after the parts already looped over
\* (temp.py 147-176, temp2.py 152-168, temp2_filtered.py 144-156)
RECURSIVE find_email_parts(_, _, _)
find_email_parts(v, parts, body) ==
    LET Rest(r) == IF r.ok THEN find_email_parts(v, Tail(parts), r.body) ELSE WalkRaised
        Own(b) == Rest(OwnContent(v, Head(parts), b))
        Merged(nested) == IF nested.ok THEN Own(MergeNested(body, nested.body)) ELSE WalkRaised
    IN  IF parts = <<>> THEN Walked(body)
        ELSE IF Head(parts).hasParts
        THEN Merged(find_email_parts(v, Head(parts).parts, EmptyBody))
        ELSE Own(body)

-----------------------------------------------------------------------------
(* Inputs of the classifier                                                *)

\* the texts of at most n words of V, joined by single spaces
RECURSIVE Phrases(_, _)
Phrases(V, n) ==
    IF n = 0 THEN {""}
    ELSE LET shorter == Phrases(V, n - 1)
         IN  shorter \cup { IF q = "" THEN w ELSE q \o " " \o w : q \in shorter, w \in V }

\* k filler characters
RECURSIVE Pad(_)
Pad(k) ==
    IF k <= 0 THEN "" ELSE IF k = 1 THEN "x" ELSE Pad(k \div 2) \o Pad(k - k \div 2)

MaxSubjectWords == 2
MaxBodyParts == 1
MaxThreshold == 3
StampTextLen == 100

EmailOf(f, s, b) == [from |-> f, subject |-> s, original_body |-> b]

\* a complete rule configuration (every field of the rule file present)
BaseRules ==
    [t |-> "rules",
     from_domains |-> <<"jbhunt.com", "hunt.com">>,
     sender_names_contains |-> <<"J.B. Hunt", "J.B.">>,
     body_phrases |-> <<"J.B. Hunt 360", "hunt">>,
     url_host_contains |-> <<"jbhunt", "www">>,
     weights |-> [from_domain |-> 2, host |-> 1, phrase |-> 1, sender_name |-> 1],
     threshold |-> 2,
     subject_patterns |-> << [key |-> "TENDER", pat |-> "tender"],
                             [key |-> "ID_PATTERN", pat |-> "#(\\d+)"],
                             [key |-> "UPDATE", pat |-> "load|update"] >>,
     reply_rules |-> [true_if |-> <<"TENDER">>, false_if |-> <<"UPDATE">>],
     footer_indicators |-> <<"Stamp">>]

\* the keys of jbhunt_rules.yaml that the module reads when it is imported
RequiredKeys ==
    {"from_domains", "sender_names_contains", "body_phrases", "url_host_contains",
     "from_domain_match", "host_contains_match", "phrase_match", "sender_name_match",
     "threshold", "jbhunt_subject_patterns",
     "requires_reply_true_if", "requires_reply_false_if", "footer_indicators"}

\* jbhunt_rules.yaml before the import: whether it exists and which keys of
\* the complete file it lacks (ID_PATTERN is a key inside jbhunt_subject_patterns)
RuleFile(exists, absent) == [t |-> "file", exists |-> exists, absent |-> absent]

\* print("FATAL: ..."); exit()
Exited(message) == [t |-> "exited", message |-> message]

\* the try block of lines 6-34: JBH_RULES, or the exit of an except clause
load_rules(file) ==
    LET Present(entry) == entry.key \notin file.absent
    IN  IF ~file.exists THEN Exited("FATAL: jbhunt_rules.yaml not found.")
        ELSE IF file.absent \cap RequiredKeys # {}
        THEN Exited("FATAL: Missing key in jbhunt_rules.yaml")
        ELSE [BaseRules EXCEPT !.subject_patterns = SelectSeq(@, Present)]

\* how many keys a rule file lacks at once
MaxAbsent == 2
RuleFiles ==
    {RuleFile(FALSE, {})}
        \cup { RuleFile(TRUE, absent) :
                 absent \in { a \in SUBSET (RequiredKeys \cup {"ID_PATTERN"}) :
                                Cardinality(a) <= MaxAbsent } }

\* evidence scoring: sender header x body, weights x threshold
SenderNames == {"", "J.B. Hunt", "Bob"}
SenderAddresses == {"", "x@mail.JBHunt.com", "eve@gmail.com"}
FromFields ==
    { IF a = "" THEN n ELSE n \o " <" \o a \o ">" : n \in SenderNames, a \in SenderAddresses }
BodyParts ==
    { "hello",
      "<a href=\"https://www.jbhunt.com/t\">t</a>",
      "J.B. HUNT 360",
      "<script>J.B. Hunt 360</script>",
      "Hunt at http://JBHunt.com/x." }
ScoreBodies == Phrases(BodyParts, MaxBodyParts)
WeightVectors ==
    { [from_domain |-> 2, host |-> 1, phrase |-> 1, sender_name |-> 1],
      [from_domain |-> 1, host |-> 1, phrase |-> 1, sender_name |-> 1],
      [from_domain |-> 1, host |-> 2, phrase |-> 4, sender_name |-> 8] }
ScoreRules ==
    { [BaseRules EXCEPT !.weights = w, !.threshold = th] :
        w \in WeightVectors, th \in 0..MaxThreshold }
ScoreEmails == { EmailOf(Str(f), Str("Load #123"), Str(b)) : f \in FromFields, b \in ScoreBodies }

\* subject handling: subject x subject_patterns x reply_rules
SubjectWords == {"Load", "Tender", "#123", "#77", "L7"}
SubjectExamples == {"Load #123 and #456", "RE: load tender L12 l34 #5x#6"}
Subjects == Phrases(SubjectWords, MaxSubjectWords) \cup SubjectExamples
PatternSets ==
    { << [key |-> "TENDER", pat |-> "tender"],
         [key |-> "ID_PATTERN", pat |-> "#(\\d+)"],
         [key |-> "UPDATE", pat |-> "load|update"] >>,
      << [key |-> "ID_PATTERN", pat |-> "#\\d+"],
         [key |-> "UPDATE", pat |-> "update|load"],
         [key |-> "TENDER", pat |-> "tender"] >>,
      << [key |-> "UPPER", pat |-> "Load"],
         [key |-> "TENDER", pat |-> "tender"],
         [key |-> "ANY", pat |-> ""],
         [key |-> "ID_PATTERN", pat |-> "L(\\d+)"] >>,
      << [key |-> "ID_PATTERN", pat |-> "#(\\d+)"],
         [key |-> "UPDATE", pat |-> "update"],
         [key |-> "BLANK", pat |-> "tender|"],
         [key |-> "ANY", pat |-> ""] >> }
ReplySets ==
    { [true_if |-> <<"TENDER">>, false_if |-> <<"UPDATE">>],
      [true_if |-> <<"TENDER", "UPDATE">>, false_if |-> <<"UPDATE", "OTHER">>],
      [true_if |-> <<"ANY">>, false_if |-> <<"TENDER", "ANY">>],
      [true_if |-> <<>>, false_if |-> <<>>] }
SubjectRules ==
    { [BaseRules EXCEPT !.subject_patterns = ps, !.reply_rules = rr] :
        ps \in PatternSets, rr \in ReplySets }
SubjectEmails ==
    { EmailOf(Str("bob@jbhunt.com"), s, Str("hello")) :
        s \in { Str(x) : x \in Subjects } \cup {Missing, None} }

\* stamp location: a text of StampTextLen characters with the stamp at every
\* index, and texts with none, two or differently cased stamps
StampBodies ==
    { Pad(k) \o "Stamp" \o Pad(StampTextLen - 5 - k) : k \in 0..(StampTextLen - 5) }
    \cup { "", "x", "Stamp", "<b>STAMP</b> and more text after it",
           "stamp then a second Stamp mark", "nothing to see here",
           "Stamp" \o Pad(20) \o "<p>stamp</p>" \o Pad(3),
           Pad(5) \o "stamp" \o Pad(20) \o "Stamp" \o Pad(45) \o "xx" \o Pad(18),
           Pad(10) \o "xx" \o Pad(30) \o "STAMP" \o Pad(53),
           "xx" \o Pad(60) \o "xx" \o Pad(10) }
IndicatorSets == { <<"Stamp">>, <<"stamp", "xx">>, <<"zz", "">>, <<"zz">> }
StampRules == { [BaseRules EXCEPT !.footer_indicators = inds] : inds \in IndicatorSets }
StampEmails == { EmailOf(Missing, Missing, Str(b)) : b \in StampBodies }

\* malformed records: every field missing, None, or of any type
FieldValues ==
    { Missing, None, Str(""), Str("J.B. Hunt <bob@jbhunt.com> #7 load"),
      PyInt(0), PyInt(5), List(<<>>), List(<<"a">>) }
RecordEmails == { EmailOf(f, s, b) : f \in FieldValues, s \in FieldValues, b \in FieldValues }

-----------------------------------------------------------------------------
(* Inputs of the extractor                                                 *)

\* most parts a generated tree holds below its root
MaxParts == 3

\* the kinds of part the generated trees are made of; the text a part
\* encodes names the part by its path from the root, so that no two parts
\* of a tree hold the same content
PartKinds == {"plain", "html", "mail", "empty", "blank"}

PartOf(kind, path, parts) ==
    [mimeType |-> CASE kind \in {"plain", "blank"} -> "text/plain"
                    [] kind = "html" -> "text/html"
                    [] kind = "mail" -> "message/rfc822"
                    [] OTHER -> "multipart/mixed",
     data |-> CASE kind = "plain" -> B64("plain " \o path)
                [] kind = "html" -> B64("<p>html " \o path \o "</p>")
                [] kind = "mail" -> B64("mail " \o path)
                [] kind = "blank" -> B64("")
                [] OTHER -> NoData,
     hasParts |-> parts # <<>>,
     parts |-> parts]

\* the shapes of the forests of n parts in all
RECURSIVE ForestsOf(_)
ForestsOf(n) ==
    IF n = 0 THEN {<<>>}
    ELSE UNION { { <<[kind |-> k, parts |-> f]>> \o r :
                     k \in PartKinds, f \in ForestsOf(m - 1), r \in ForestsOf(n - m) } :
                 m \in 1..n }

RECURSIVE PartsOf(_, _)
PartsOf(forest, path) ==
    [j \in 1..Len(forest) |->
        PartOf(forest[j].kind, path \o ToString(j),
               PartsOf(forest[j].parts, path \o ToString(j)))]

Leaf(mime, data) == [mimeType |-> mime, data |-> data, hasParts |-> FALSE, parts |-> <<>>]
Multipart(parts) ==
    [mimeType |-> "multipart/alternative", data |-> NoData, hasParts |-> TRUE, parts |-> parts]

TreePayloads ==
    { Multipart(PartsOf(f, "")) : f \in UNION { ForestsOf(n) : n \in 0..MaxParts } }

PlainSamples ==
    { "Reply text\n________\nOriginal message",
      "Thanks\nOn Jan 1 Bob wrote:\nold",
      "  \n ",
      "\n____\nOriginal",
      "On Jan 1 Bob wrote:\nold",
      "Reply\n____",
      "a\n__\nb\nOn x wrote:\nc" }
HtmlSamples ==
    { "<blockquote>On Jan 1 wrote: old text</blockquote>New text",
      "<div>Hi</div><div class=\"gmail_quote\">old<blockquote>older</blockquote></div>",
      "<blockquote>a quote</blockquote>",
      "<p> </p><br/>",
      "<div class=\"gmail_quote\">one</div>New<div class=\"x gmail_quote\">two</div>" }
ContentData ==
    { NoData, Undecodable("a"), Unpadded("Hi") }
    \cup { B64(t) : t \in PlainSamples \cup HtmlSamples }

SinglePayloads == { Leaf(m, d) : m \in {"text/plain", "text/html"}, d \in ContentData }
AlternativePayloads ==
    { Multipart(<<Leaf("text/plain", p), Leaf("text/html", h)>>) :
        p \in { NoData, Undecodable("a"), B64("Reply text\n________\nOriginal message") },
        h \in { NoData, B64("<blockquote>a quote</blockquote>"),
                B64("<blockquote>On Jan 1 wrote: old text</blockquote>New text") } }

ExtractPayloads == TreePayloads \cup SinglePayloads \cup AlternativePayloads

-----------------------------------------------------------------------------
(* The notifier scripts: emails.json and the processed set                  *)
(* (main.py, temp.py, temp2.py, temp2_filtered.py)                          *)

Notifiers == {"main", "temp", "temp2", "temp2_filtered"}

\* the messages of the inbox, in the order `messages().list` returns them
Listing == <<"m1", "m2">>
MessageIds == {Listing[i] : i \in 1..Len(Listing)}

\* most notifications of one message that Telegram delivers
MaxDeliveries == 2
\* most runs of the script
MaxRuns == 2

\* one element of emails.json; needs_response is None, True, False, or the
\* key is absent (temp2_filtered.py builds its record without it)
Record(id, subject, needs) == [id |-> id, subject |-> subject, needs_response |-> needs]
NewRecord(v, id) == Record(id, "subject", IF v = "temp2_filtered" THEN "absent" ELSE "None")

\* emails.json: whether it exists, and the list it holds
NoFile == [exists |-> FALSE, data |-> <<>>]
IdsOf(file) == {file.data[k].id : k \in 1..Len(file.data)}
HasRecord(file, id) == id \in IdsOf(file)
FirstWith(file, id) == CHOOSE k \in 1..Len(file.data) :
    /\ file.data[k].id = id
    /\ \A j \in 1..(k - 1) : file.data[j].id # id

\* read the list (none when the file is missing), append, write the file
save_email_record_fresh(file, record) == [exists |-> TRUE, data |-> <<record>>]
save_email_record(file, record) == [exists |-> TRUE, data |-> Append(file.data, record)]

\* `for e in data: if e["id"] == email_id: e["needs_response"] = decision; break`
update_email_record_all(file, email_id, decision) ==
    [file EXCEPT !.data = [k \in 1..Len(file.data) |->
        IF file.data[k].id = email_id
        THEN [file.data[k] EXCEPT !.needs_response = decision]
        ELSE file.data[k]]]
update_email_record(file, email_id, decision) ==
    IF ~file.exists \/ ~HasRecord(file, email_id) THEN file
    ELSE [file EXCEPT !.data[FirstWith(file, email_id)].needs_response = decision]

\* `PROCESSED_EMAIL_IDS = {e["id"] for e in emails_data}`
load_processed_emails(file) == IF file.exists THEN IdsOf(file) ELSE {}

\* the polling coroutine: where it stands, the messages of this poll still
\* to handle (the first one is the current message), the sends it has
\* awaited for each message in this poll, and the send it is waiting on
Waiting == [pc |-> "sleep", queue |-> <<>>,
            attempts |-> [m \in MessageIds |-> 0], inflight |-> "none"]
\* the places where the coroutine is suspended in an await
AwaitPoints == {"sleep", "sending", "retry_sleep", "throttle", "dead"}

NoneDelivered == [delivered |-> [m \in MessageIds |-> 0],
                  returned |-> [m \in MessageIds |-> 0]]

FirstStart ==
    /\ PROCESSED_EMAIL_IDS = load_processed_emails(NoFile)
    /\ emails_file = NoFile
    /\ poller = Waiting
    /\ gmail = [answered |-> {}]
    /\ telegram = NoneDelivered
    /\ applied = [m \in MessageIds |-> "none"]
    /\ run = [n |-> 1, loaded |-> {}]

\* the notifier is not part of the classifier's and the extractor's runs
NotifierIdle ==
    /\ PROCESSED_EMAIL_IDS = {}
    /\ emails_file = NoFile
    /\ poller = [Waiting EXCEPT !.pc = "off"]
    /\ gmail = [answered |-> {}]
    /\ telegram = NoneDelivered
    /\ applied = [m \in MessageIds |-> "none"]
    /\ run = [n |-> 0, loaded |-> {}]

-----------------------------------------------------------------------------
(* The classifier as a state machine                                       *)

ExtractorIdle ==
    /\ variant = "none"
    /\ payload = NoResult
    /\ stack = <<>>
    /\ extraction = NoResult

InitClassifier(Rs, Es) ==
    /\ rules \in Rs
    /\ email \in Es
    /\ result = NoResult
    /\ calls = <<>>
    /\ NotifierIdle
    /\ ExtractorIdle

InitScore == InitClassifier(ScoreRules, ScoreEmails)
InitSubject == InitClassifier(SubjectRules, SubjectEmails)
InitStamp == InitClassifier(StampRules, StampEmails)
InitRecord == InitClassifier({BaseRules}, RecordEmails)
\* before `from email_jbhunt_prep import classify`
InitLoad == InitClassifier(RuleFiles, SubjectEmails)

\* texts made of entities, tags and words
HtmlFragments == {"&lt;b&gt;", "&amp;lt;", "<p>", "x", "&amp;"}
\* how many fragments a text joins
MaxFragments == 3
InitStrip ==
    InitClassifier({BaseRules},
                   { EmailOf(Missing, Missing, Str(b)) :
                       b \in Phrases(HtmlFragments, MaxFragments) })

\* text_body = strip_html(email.get("original_body") or "")
\* (src/email_jbhunt_prep.py line 102)
StripHtml ==
    /\ email # NoResult
    /\ result = NoResult
    /\ result' = Str(strip_html(GetOrEmpty(email, "original_body")))
    /\ UNCHANGED <<rules, email, variant, payload, stack, extraction, calls, notifierVars>>

\* sender domains and configured suffixes in either letter case; the
\* from_domain weight alone reaches the threshold, the other three do not
DomainSuffixSets ==
    { <<"jbhunt.com">>, <<"JBHunt.com">>, <<"x.org", "HUNT.com">>, <<>> }
DomainRules ==
    { [BaseRules EXCEPT !.from_domains = ds,
                        !.weights = [from_domain |-> 4, host |-> 1,
                                     phrase |-> 1, sender_name |-> 1],
                        !.threshold = 4] : ds \in DomainSuffixSets }
DomainEmails ==
    { EmailOf(Str(IF a = "" THEN n ELSE n \o " <" \o a \o ">"), Str("Load #123"), Str(b)) :
        n \in SenderNames,
        a \in SenderAddresses \cup {"a@JBHUNT.COM", "b@jbhunt.com", "hunt.com"},
        b \in {"hello", "Hunt at http://JBHunt.com/x."} }
InitDomain == InitClassifier(DomainRules, DomainEmails)

\* the import of email_jbhunt_prep   (src/test_decision_script.py line 2)
LoadRules ==
    /\ rules.t = "file"
    /\ rules' = load_rules(rules)
    /\ UNCHANGED <<email, result, variant, payload, stack, extraction, calls, notifierVars>>

\* the emails of emails.json that the loop may classify, in any order and
\* any number of times
LoopEmails ==
    { EmailOf(Str(f), s, Str("see https://www.jbhunt.com/x")) :
        f \in {"bob@jbhunt.com", "eve@gmail.com"},
        s \in {Str("Tender Load #12"), Str("update #7 and #8"), Missing} }
\* how many classify calls the loop finishes
MaxCalls == 3

InitLoop == InitClassifier({BaseRules}, LoopEmails)

\* Classify with a threshold that grows with the calls made before
Classify_stateful ==
    /\ rules.t = "rules"
    /\ result = NoResult
    /\ email # NoResult
    /\ result' = classify(email, [rules EXCEPT !.threshold = @ + Len(calls)])
    /\ UNCHANGED <<rules, email, variant, payload, stack, extraction, calls, notifierVars>>

\* Classify that empties the body dicts of the find_email_parts calls in flight
Classify_clobbering ==
    /\ rules.t = "rules"
    /\ result = NoResult
    /\ email # NoResult
    /\ result' = classify(email, rules)
    /\ stack' = [k \in 1..Len(stack) |-> [stack[k] EXCEPT !.body = EmptyBody]]
    /\ UNCHANGED <<rules, email, variant, payload, extraction, calls, notifierVars>>

\* res = classify(e)   (src/test_decision_script.py line 13)
Classify ==
    /\ rules.t = "rules"
    /\ result = NoResult
    /\ email # NoResult
    /\ result' = classify(email, rules)
    /\ UNCHANGED <<rules, email, variant, payload, stack, extraction, calls, notifierVars>>

\* the for loop takes the next email once classify has returned
\* (src/test_decision_script.py lines 12-21); an exception ends the script
NextEmail ==
    /\ result # NoResult
    /\ ~IsExc(result)
    /\ Len(calls) < MaxCalls
    /\ calls' = Append(calls, [e |-> email, res |-> result])
    /\ email' \in LoopEmails
    /\ result' = NoResult
    /\ UNCHANGED <<rules, variant, payload, stack, extraction, notifierVars>>

-----------------------------------------------------------------------------
(* The extractor as a state machine: extract_latest_reply runs              *)
(* find_email_parts one part at a time, one stack frame per active call     *)

Walking == [t |-> "walking"]

\* a call of find_email_parts(parts): the loop index, whether the nested
\* call for the current part has returned, and the local body dict
Frame(parts) == [parts |-> parts, idx |-> 1, own |-> FALSE, body |-> EmptyBody]

InitExtract ==
    /\ rules = BaseRules
    /\ email = NoResult
    /\ result = NoResult
    /\ variant \in Variants
    /\ payload \in ExtractPayloads
    /\ stack = <<>>
    /\ extraction = NoResult
    /\ calls = <<>>
    /\ NotifierIdle

Top == stack[Len(stack)]
Current == Top.parts[Top.idx]
InWalk == extraction = Walking /\ stack # <<>>

\* extract_latest_reply of a payload without parts
\* (temp.py 182-187, temp2.py 178-181, temp2_filtered.py 162-165)
SingleResult(v, p) ==
    LET Of(d) ==
            IF ~d.ok THEN Raised
            ELSE Cleaned(v, IF p.mimeType = "text/html"
                            THEN [EmptyBody EXCEPT !.html = d.text]
                            ELSE [EmptyBody EXCEPT !.plain = d.text])
    IN  IF ~HasData(p.data) THEN Cleaned(v, EmptyBody) ELSE Of(Decode(v, p.data))

\* extract_latest_reply(payload) as a function of the payload
\* (temp.py 178-211, temp2.py 170-198, temp2_filtered.py 158-174)
extract_latest_reply(v, p) ==
    LET Of(walk) == IF walk.ok THEN Cleaned(v, walk.body) ELSE Raised
    IN  IF p.hasParts THEN Of(find_email_parts(v, p.parts, EmptyBody))
        ELSE SingleResult(v, p)

\* a classify call and an extract_latest_reply call in flight together, each
\* on its own email
ConcurrentPayloads ==
    { Multipart(PartsOf(f, "")) : f \in UNION { ForestsOf(n) : n \in 0..2 } }
        \cup SinglePayloads \cup AlternativePayloads
InitConcurrent ==
    /\ rules = BaseRules
    /\ email \in LoopEmails
    /\ result = NoResult
    /\ variant \in Variants
    /\ payload \in ConcurrentPayloads
    /\ stack = <<>>
    /\ extraction = NoResult
    /\ calls = <<>>
    /\ NotifierIdle

\* `if "parts" in payload: body_parts = find_email_parts(payload["parts"])`
BeginWalk ==
    /\ payload # NoResult
    /\ extraction = NoResult
    /\ payload.hasParts
    /\ stack' = <<Frame(payload.parts)>>
    /\ extraction' = Walking
    /\ UNCHANGED <<rules, email, result, variant, payload, calls, notifierVars>>

\* the payload carries its content itself
ExtractSingle ==
    /\ payload # NoResult
    /\ extraction = NoResult
    /\ ~payload.hasParts
    /\ extraction' = SingleResult(variant, payload)
    /\ UNCHANGED <<rules, email, result, variant, payload, stack, calls, notifierVars>>

\* `if "parts" in part: nested = find_email_parts(part["parts"])`
Descend ==
    /\ InWalk
    /\ Top.idx <= Len(Top.parts)
    /\ ~Top.own
    /\ Current.hasParts
    /\ stack' = Append(stack, Frame(Current.parts))
    /\ UNCHANGED <<rules, email, result, variant, payload, extraction, calls, notifierVars>>

\* `return body` of a nested call, and the merge of it by the caller
Return ==
    /\ InWalk
    /\ Len(stack) > 1
    /\ Top.idx > Len(Top.parts)
    /\ stack' = [k \in 1..(Len(stack) - 1) |->
                    IF k < Len(stack) - 1 THEN stack[k]
                    ELSE [stack[k] EXCEPT !.own = TRUE,
                                          !.body = MergeNested(stack[k].body, Top.body)]]
    /\ UNCHANGED <<rules, email, result, variant, payload, extraction, calls, notifierVars>>

\* the part's own mimeType and data, then the next part of the loop; a
\* decoding error leaves every call
Visit ==
    /\ InWalk
    /\ Top.idx <= Len(Top.parts)
    /\ Top.own \/ ~Current.hasParts
    /\ LET r == OwnContent(variant, Current, Top.body)
       IN  IF r.ok
           THEN /\ stack' = [stack EXCEPT ![Len(stack)] =
                                [@ EXCEPT !.idx = @ + 1, !.own = FALSE, !.body = r.body]]
                /\ UNCHANGED extraction
           ELSE /\ stack' = <<>>
                /\ extraction' = Raised
    /\ UNCHANGED <<rules, email, result, variant, payload, calls, notifierVars>>

\* `return body` of the outermost call, and the rest of extract_latest_reply
Finish ==
    /\ InWalk
    /\ Len(stack) = 1
    /\ Top.idx > Len(Top.parts)
    /\ extraction' = Cleaned(variant, Top.body)
    /\ stack' = <<>>
    /\ UNCHANGED <<rules, email, result, variant, payload, calls, notifierVars>>

NextExtract == BeginWalk \/ ExtractSingle \/ Descend \/ Return \/ Visit \/ Finish

-----------------------------------------------------------------------------
(* The notifier as a state machine.  The polling coroutine runs from one    *)
(* await to the next without interruption; a callback handler runs only     *)
(* while the polling coroutine is suspended in an await.                    *)

mid == Head(poller.queue)

\* temp.py walks the listing as returned, the other scripts reversed
ListOrder(v) ==
    IF v = "temp" THEN Listing
    ELSE [k \in 1..Len(Listing) |-> Listing[Len(Listing) + 1 - k]]

\* `if email_id in PROCESSED_EMAIL_IDS: return`
Skips_never(processed, email_id) == FALSE
Skips(processed, email_id) == email_id \in processed

\* `PROCESSED_EMAIL_IDS.add(mid)` stands after the awaited send
ProcessedAfter_any(processed, email_id, outcome) == processed \cup {email_id}
ProcessedAfter(processed, email_id, outcome) ==
    IF outcome = "ok" THEN processed \cup {email_id} ELSE processed

\* the write of save_email_record may fail; the error is logged or caught
Written(file, record, wrote) == IF wrote THEN save_email_record(file, record) ELSE file

\* is_last_message_from_me: False when the thread cannot be fetched
is_last_message_from_me(answered, email_id, fetched) == fetched /\ email_id \in answered

\* the next message of the loop
Continue(p) == [p EXCEPT !.pc = "loop", !.queue = Tail(@), !.inflight = "none"]
\* `await bot.send_message(...)`
Await_send(p) == [p EXCEPT !.pc = "sending", !.inflight = "pending",
                           !.attempts[Head(p.queue)] = @ + 1]

\* what follows a send that raised: temp.py sleeps and sends once more after
\* TelegramRetryAfter or TelegramNetworkError of the first send
AfterFailure(v, p, outcome) ==
    IF v = "temp" /\ p.attempts[Head(p.queue)] = 1 /\ outcome \in {"retry_after", "network"}
    THEN [p EXCEPT !.pc = "retry_sleep", !.inflight = "none"]
    ELSE Continue(p)

\* check_new_emails lists the messages
Poll ==
    /\ poller.pc = "sleep"
    /\ \E outcome \in {"ok", "HttpError", "error"} :
        poller' = IF outcome = "ok"
                  THEN [Waiting EXCEPT !.pc = "loop", !.queue = ListOrder(variant)]
                  ELSE IF outcome = "error" /\ variant = "temp2_filtered"
                  THEN [poller EXCEPT !.pc = "dead"]
                  ELSE poller
    /\ UNCHANGED <<PROCESSED_EMAIL_IDS, emails_file, gmail, telegram, applied, run>>
    /\ UNCHANGED <<rules, email, result, variant, payload, stack, extraction, calls>>

\* the head of the loop over the listed messages
NextMessage ==
    /\ poller.pc = "loop"
    /\ poller' = IF poller.queue = <<>> THEN [poller EXCEPT !.pc = "sleep"]
                 ELSE IF Skips(PROCESSED_EMAIL_IDS, mid) THEN Continue(poller)
                 ELSE [poller EXCEPT !.pc = IF variant = "temp" THEN "meta" ELSE "fetch"]
    /\ UNCHANGED <<PROCESSED_EMAIL_IDS, emails_file, gmail, telegram, applied, run>>
    /\ UNCHANGED <<rules, email, result, variant, payload, stack, extraction, calls>>

\* temp.py: the metadata of the message; a failure skips the message
Metadata ==
    /\ poller.pc = "meta"
    /\ \E ok \in BOOLEAN :
        poller' = IF ok THEN [poller EXCEPT !.pc = "check1"] ELSE Continue(poller)
    /\ UNCHANGED <<PROCESSED_EMAIL_IDS, emails_file, gmail, telegram, applied, run>>
    /\ UNCHANGED <<rules, email, result, variant, payload, stack, extraction, calls>>

\* temp.py: is_last_message_from_me before the full fetch and again before
\* the send; an answered message is recorded and marked processed; an error
\* while the notification is built skips the message
CheckAnswered ==
    /\ poller.pc \in {"check1", "check2"}
    /\ \E fetched \in BOOLEAN, wrote \in BOOLEAN, built \in BOOLEAN :
        IF is_last_message_from_me(gmail.answered, mid, fetched)
        THEN /\ emails_file' = Written(emails_file,
                    Record(mid, IF poller.pc = "check1" THEN "(skipped)" ELSE "subject", "False"),
                    wrote)
             /\ PROCESSED_EMAIL_IDS' = PROCESSED_EMAIL_IDS \cup {mid}
             /\ poller' = Continue(poller)
        ELSE /\ poller' = IF poller.pc = "check1" THEN [poller EXCEPT !.pc = "fetch"]
                          ELSE IF built THEN Await_send(poller)
                          ELSE Continue(poller)
             /\ UNCHANGED <<PROCESSED_EMAIL_IDS, emails_file>>
    /\ UNCHANGED <<gmail, telegram, applied, run>>
    /\ UNCHANGED <<rules, email, result, variant, payload, stack, extraction, calls>>

\* the full fetch and the formatting of the notification; an error is caught
\* and the loop goes on with the next message
Fetch ==
    /\ poller.pc = "fetch"
    /\ \E ok \in BOOLEAN :
        poller' = IF ~ok THEN Continue(poller)
                  ELSE IF variant = "temp" THEN [poller EXCEPT !.pc = "check2"]
                  ELSE Await_send(poller)
    /\ UNCHANGED <<PROCESSED_EMAIL_IDS, emails_file, gmail, telegram, applied, run>>
    /\ UNCHANGED <<rules, email, result, variant, payload, stack, extraction, calls>>

\* Telegram shows the notification to the owner
TelegramDelivers ==
    /\ poller.pc = "sending"
    /\ poller.inflight = "pending"
    /\ telegram.delivered[mid] < MaxDeliveries
    /\ telegram' = [telegram EXCEPT !.delivered[mid] = @ + 1]
    /\ poller' = [poller EXCEPT !.inflight = "delivered"]
    /\ UNCHANGED <<PROCESSED_EMAIL_IDS, emails_file, gmail, applied, run>>
    /\ UNCHANGED <<rules, email, result, variant, payload, stack, extraction, calls>>

\* the awaited send returns or raises; after a return the ID is added and
\* the record saved before the coroutine yields again
SendReturns ==
    /\ poller.pc = "sending"
    /\ \E outcome \in {"ok", "retry_after", "network", "error"}, wrote \in BOOLEAN :
        /\ outcome = "ok" => poller.inflight = "delivered"
        /\ outcome \in {"retry_after", "error"} => poller.inflight = "pending"
        /\ PROCESSED_EMAIL_IDS' = ProcessedAfter(PROCESSED_EMAIL_IDS, mid, outcome)
        /\ IF outcome = "ok"
           THEN /\ emails_file' = Written(emails_file, NewRecord(variant, mid), wrote)
                /\ telegram' = [telegram EXCEPT !.returned[mid] = @ + 1]
                /\ poller' = IF variant = "temp"
                             THEN [poller EXCEPT !.pc = "throttle", !.inflight = "none"]
                             ELSE Continue(poller)
           ELSE /\ poller' = AfterFailure(variant, poller, outcome)
                /\ UNCHANGED <<emails_file, telegram>>
    /\ UNCHANGED <<gmail, applied, run>>
    /\ UNCHANGED <<rules, email, result, variant, payload, stack, extraction, calls>>

\* temp.py: the sleep before the second send is over
Retry ==
    /\ poller.pc = "retry_sleep"
    /\ poller' = Await_send(poller)
    /\ UNCHANGED <<PROCESSED_EMAIL_IDS, emails_file, gmail, telegram, applied, run>>
    /\ UNCHANGED <<rules, email, result, variant, payload, stack, extraction, calls>>

\* temp.py: `await asyncio.sleep(0.3)` after a notified message
Throttle ==
    /\ poller.pc = "throttle"
    /\ poller' = Continue(poller)
    /\ UNCHANGED <<PROCESSED_EMAIL_IDS, emails_file, gmail, telegram, applied, run>>
    /\ UNCHANGED <<rules, email, result, variant, payload, stack, extraction, calls>>

\* the owner answers in the thread of a message
OwnerReplies ==
    /\ poller.pc # "off"
    /\ \E m \in MessageIds \ gmail.answered :
        gmail' = [gmail EXCEPT !.answered = @ \cup {m}]
    /\ UNCHANGED <<PROCESSED_EMAIL_IDS, emails_file, poller, telegram, applied, run>>
    /\ UNCHANGED <<rules, email, result, variant, payload, stack, extraction, calls>>

\* handle_decision_callback: the owner pressed a button of a delivered
\* notification; update_email_record runs before the handler's first await.
\* applied keeps, for each ID, what the last handler run did with the
\* decision: stored it ("True", "False") or found no record ("dropped").
Callback ==
    /\ poller.pc \in AwaitPoints
    /\ \E m \in MessageIds, decision \in {"True", "False"} :
        /\ telegram.delivered[m] > 0
        /\ emails_file' = update_email_record(emails_file, m, decision)
        /\ applied' = [applied EXCEPT ![m] =
                IF emails_file' = emails_file /\ ~HasRecord(emails_file, m)
                THEN "dropped" ELSE decision]
    /\ UNCHANGED <<PROCESSED_EMAIL_IDS, poller, gmail, telegram, run>>
    /\ UNCHANGED <<rules, email, result, variant, payload, stack, extraction, calls>>

\* the script is stopped and started again: main() loads the processed IDs
\* from emails.json before it starts the polling
Restart ==
    /\ poller.pc # "off"
    /\ run.n < MaxRuns
    /\ PROCESSED_EMAIL_IDS' = load_processed_emails(emails_file)
    /\ poller' = Waiting
    /\ run' = [n |-> run.n + 1, loaded |-> IdsOf(emails_file)]
    /\ UNCHANGED <<emails_file, gmail, telegram, applied>>
    /\ UNCHANGED <<rules, email, result, variant, payload, stack, extraction, calls>>

PollerStep == Poll \/ NextMessage \/ Metadata \/ CheckAnswered \/ Fetch
                \/ TelegramDelivers \/ SendReturns \/ Retry \/ Throttle

\* longest list of records that emails.json holds at startup
MaxRecords == 3
\* the files that a run can find at startup: none, or a list of records
\* written by earlier runs of any of the scripts; an ID can be recorded
\* more than once
StoredRecords == {Record(m, "subject", n) : m \in MessageIds, n \in {"None", "True"}}
StoredFiles == {NoFile} \cup
    {[exists |-> TRUE, data |-> d] : d \in UNION {[1..n -> StoredRecords] : n \in 0..MaxRecords}}

\* a run that starts on a stored file; the notifications of earlier runs
\* are in the chat with their buttons
InitUpdate ==
    /\ rules = NoResult
    /\ email = NoResult
    /\ result = NoResult
    /\ calls = <<>>
    /\ payload = NoResult
    /\ stack = <<>>
    /\ extraction = NoResult
    /\ variant \in {"main", "temp", "temp2"}
    /\ emails_file \in StoredFiles
    /\ PROCESSED_EMAIL_IDS = load_processed_emails(emails_file)
    /\ poller = Waiting
    /\ gmail = [answered |-> {}]
    /\ telegram = [NoneDelivered EXCEPT !.delivered = [m \in MessageIds |-> 1]]
    /\ applied = [m \in MessageIds |-> "none"]
    /\ run = [n |-> 1, loaded |-> IdsOf(emails_file)]

InitNotifier ==
    /\ rules = NoResult
    /\ email = NoResult
    /\ result = NoResult
    /\ calls = <<>>
    /\ payload = NoResult
    /\ stack = <<>>
    /\ extraction = NoResult
    /\ variant \in Notifiers
    /\ FirstStart

-----------------------------------------------------------------------------
(* Claims about the classifier                                             *)

Classified == result.t = "result"
Called == result # NoResult

FieldNames == {"from", "subject", "original_body"}
Malformed(x) == x.t # "str"
\* the record with every malformed field absent
Degraded(mail) == [k \in FieldNames |-> IF Malformed(mail[k]) THEN Missing ELSE mail[k]]

\* C1: classify never raises for a malformed record: whenever a field is
\* missing, None or not a string, the call returns the Classification Result
\* of the record in which that field is absent.
C1_NeverRaisesOnMalformed ==
    Called => /\ Classified
              /\ result = classify(Degraded(email), rules)

EvidenceChannels == {"from_domain", "sender_name", "host", "phrase"}
Fired(c, mail, R) ==
    CASE c = "from_domain" -> FromDomainEvidence(GetOrEmpty(mail, "from").v, R)
      [] c = "sender_name" -> SenderNameEvidence(GetOrEmpty(mail, "from").v, R)
      [] c = "host" -> HostEvidence(GetOrEmpty(mail, "original_body"), R)
      [] c = "phrase" -> PhraseEvidence(GetOrEmpty(mail, "original_body"), R)
FiredChannels(mail, R) == { c \in EvidenceChannels : Fired(c, mail, R) }
RECURSIVE WeightSum(_, _)
WeightSum(C, R) ==
    IF C = {} THEN 0
    ELSE LET c == CHOOSE x \in C : TRUE IN R.weights[c] + WeightSum(C \ {c}, R)

\* C2: is_vendor_match is true if and only if the sum of the weights of the
\* evidence channels that fired is at least the threshold; a sum equal to
\* the threshold is a match.
C2_MatchIffTotalReachesThreshold ==
    Classified =>
        (result.is_jbhunt <=> WeightSum(FiredChannels(email, rules), rules) >= rules.threshold)

C2_Witness_TotalEqualsThreshold ==
    /\ Classified
    /\ rules.threshold > 0
    /\ WeightSum(FiredChannels(email, rules), rules) = rules.threshold
    /\ result.is_jbhunt

\* C3: every evidence channel adds 0 or exactly its own weight to the score,
\* however many of its tokens match: the score is the sum of the weights of
\* the channels that fired, it is weights.from_domain when only the sender
\* domain matches, and it never exceeds the sum of the four weights.
C3_EachChannelCountsOnce ==
    Classified =>
        LET score == Score(email, rules)
            fired == FiredChannels(email, rules)
        IN  /\ score = WeightSum(fired, rules)
            /\ (fired = {"from_domain"} => score = rules.weights.from_domain)
            /\ score <= WeightSum(EvidenceChannels, rules)

\* several phrases of the rule file occur in the body, and only the phrase
\* channel and the sender domain fire
C3_Witness_ManyTokensOneWeight ==
    /\ Classified
    /\ FiredChannels(email, rules) = {"from_domain", "phrase"}
    /\ LET text == Lower(strip_html(GetOrEmpty(email, "original_body")))
       IN  Cardinality({ k \in 1..Len(rules.body_phrases) :
                           Contains(text, Lower(rules.body_phrases[k])) }) > 1
    /\ Score(email, rules) = rules.weights.from_domain + rules.weights.phrase

\* the lowered subject subject_category matches against
LoweredSubject(mail) ==
    IF IsStr(Get(mail, "subject")) THEN Lower(Get(mail, "subject").v) ELSE ""
\* the positions of the category patterns that match the lowered subject
MatchingCategories(mail, R) ==
    { k \in 1..Len(R.subject_patterns) :
        /\ R.subject_patterns[k].key # "ID_PATTERN"
        /\ ReSearch(R.subject_patterns[k].pat, LoweredSubject(mail)) }

\* C4: subject_category is the first category in declared order, the
\* reserved ID_PATTERN entry skipped, whose pattern matches the lowered
\* subject; OTHER when none matches; never ID_PATTERN.
C4_FirstDeclaredCategoryWins ==
    Classified =>
        /\ result.subject_category # "ID_PATTERN"
        /\ IF MatchingCategories(email, rules) = {}
           THEN result.subject_category = "OTHER"
           ELSE result.subject_category =
                    rules.subject_patterns[Min(MatchingCategories(email, rules))].key

\* two category patterns match, and the reserved pattern, declared before
\* both, matches too
C4_Witness_TwoMatchEarlierWins ==
    /\ Classified
    /\ Cardinality(MatchingCategories(email, rules)) >= 2
    /\ rules.subject_patterns[1].key = "ID_PATTERN"
    /\ ReSearch(rules.subject_patterns[1].pat, LoweredSubject(email))
    /\ result.subject_category = rules.subject_patterns[2].key

\* C5: a category of reply_true_categories always gives needs_reply true,
\* also when it is in reply_false_categories too; the false set decides only
\* for a category the true set does not hold.
C5_TrueSetTakesPrecedence ==
    Classified =>
        /\ (InSeq(result.subject_category, rules.reply_rules.true_if)
                => result.needs_response_pred = "True")
        /\ (result.needs_response_pred = "False"
                => ~InSeq(result.subject_category, rules.reply_rules.true_if))

C5_Witness_CategoryInBothSets ==
    /\ Classified
    /\ InSeq(result.subject_category, rules.reply_rules.true_if)
    /\ InSeq(result.subject_category, rules.reply_rules.false_if)
    /\ result.needs_response_pred = "True"

\* the reason names the category
NamesCategory(reason, cat) == Contains(reason, "'" \o cat \o "'")

\* C6: needs_reply is a total three-valued function of the category: true
\* iff it is in the true set, false iff it is only in the false set, unknown
\* iff it is in neither; the reason is the generic text exactly when the
\* verdict is unknown and names the category otherwise.
C6_VerdictIsTriState ==
    Classified =>
        LET cat == result.subject_category
            inTrue == InSeq(cat, rules.reply_rules.true_if)
            inFalse == InSeq(cat, rules.reply_rules.false_if)
        IN  /\ result.needs_response_pred \in {"True", "False", "None"}
            /\ (result.needs_response_pred = "True" <=> inTrue)
            /\ (result.needs_response_pred = "False" <=> (~inTrue /\ inFalse))
            /\ (result.needs_response_pred = "None" <=> (~inTrue /\ ~inFalse))
            /\ (result.reason = NoSignalReason <=> result.needs_response_pred = "None")
            /\ (result.needs_response_pred # "None" => NamesCategory(result.reason, cat))

C6_Witness_InformationalCategory ==
    /\ Classified
    /\ result.needs_response_pred = "False"
    /\ NamesCategory(result.reason, result.subject_category)
    /\ result.reason # NoSignalReason

\* the normalized text the Stamp Locator reads, lowered for the comparison
StampText(mail) == Lower(strip_html(GetOrEmpty(mail, "original_body")))
\* the 0-based indices of the text t at which some footer indicator occurs
IndicatorIndices(t, inds) ==
    { i \in 0..Len(t) : \E k \in 1..Len(inds) : OccursAt(t, Lower(inds[k]), i + 1) }

\* C7: with i the chosen index (the last index at which an indicator
\* occurs) and n the length of the normalized text, the bucket is header if
\* i / max(n,1) < 0.2, body if 0.2 <= i / max(n,1) < 0.7, footer otherwise;
\* none when no indicator occurs.  (i/n < 2/10 is 5i < n, i/n < 7/10 is
\* 10i < 7n.)
C7_StampBuckets ==
    Classified =>
        LET t == StampText(email)
            found == IndicatorIndices(t, rules.footer_indicators)
            i == Max(found)
            n == IF Len(t) > 1 THEN Len(t) ELSE 1
        IN  IF found = {}
            THEN result.company_stamp_position = "None"
            ELSE /\ (5 * i < n => result.company_stamp_position = "header")
                 /\ (5 * i >= n /\ 10 * i < 7 * n => result.company_stamp_position = "body")
                 /\ (10 * i >= 7 * n => result.company_stamp_position = "footer")

\* the boundary 20 of 100: fraction exactly 0.2 is body
C7_Witness_Index20Of100IsBody ==
    /\ Classified
    /\ Len(StampText(email)) = 100
    /\ IndicatorIndices(StampText(email), rules.footer_indicators) = {20}
    /\ result.company_stamp_position = "body"

\* the raw subject extract_load_ids reads
RawSubject(mail) == IF IsStr(Get(mail, "subject")) THEN Get(mail, "subject").v ELSE ""
IdPattern(R) == Lookup(R.subject_patterns, "ID_PATTERN")
\* the positions of the raw subject where a match of the identifier pattern
\* starts that no earlier match overlaps
IdMatchStarts(mail, R) ==
    { i \in 1..Len(RawSubject(mail)) :
        /\ IdEnd(RawSubject(mail), i, IdPrefix(IdPattern(R))) # 0
        /\ \A j \in 1..(i - 1) : IdEnd(RawSubject(mail), j, IdPrefix(IdPattern(R))) < i }
\* what findall reports for the match at i
IdText(mail, R, i) ==
    Slice(RawSubject(mail),
          IF IdHasGroup(IdPattern(R)) THEN i + Len(IdPrefix(IdPattern(R))) ELSE i,
          IdEnd(RawSubject(mail), i, IdPrefix(IdPattern(R))))
\* the elements of a set of numbers in increasing order
RECURSIVE Ascending(_)
Ascending(S) == IF S = {} THEN <<>> ELSE <<Min(S)>> \o Ascending(S \ {Min(S)})

\* C8: load_ids holds every non-overlapping match of the identifier pattern
\* in the raw subject, left to right, repeated identifiers kept; it is empty
\* when there is no match or no subject.
C8_AllIdsInOrder ==
    Classified =>
        LET starts == Ascending(IdMatchStarts(email, rules))
        IN  /\ Len(result.load_ids) = Len(starts)
            /\ \A k \in 1..Len(starts) : result.load_ids[k] = IdText(email, rules, starts[k])
            /\ (RawSubject(email) = "" => result.load_ids = <<>>)

C8_Witness_TwoIdsOfTheExample ==
    /\ Classified
    /\ RawSubject(email) = "Load #123 and #456"
    /\ IdPattern(rules) = "#(\\d+)"
    /\ result.load_ids = <<"123", "456">>


\* ---- the latest-reply extractor ----

Extracted == extraction.t = "result"
ExtractionEnded == extraction.t \in {"result", "exc"}

\* the parts in the order find_email_parts reaches their own content:
\* the parts nested in a part, then the part
RECURSIVE VisitOrder(_)
VisitOrder(parts) ==
    IF parts = <<>> THEN <<>>
    ELSE VisitOrder(parts[1].parts) \o <<parts[1]>> \o VisitOrder(Tail(parts))

\* no part of the tree, the root included, carries data that decode to text
NoDecodableContent(p) ==
    \A part \in Range(VisitOrder(<<p>>)) :
        ~(part.data.enc \in {"b64url", "unpadded"} /\ part.data.text # "")

\* C9: for every MIME part tree the clean_reply that extract_latest_reply of
\* temp.py and temp2.py returns is never the empty string, and when the tree
\* holds no decodable plain or HTML content of any kind the call returns the
\* fixed placeholder as clean_reply and the empty string as original_body.
C9_CleanReplyNeverEmpty ==
    (variant \in {"temp", "temp2"} /\ ExtractionEnded) =>
        /\ Extracted => extraction.clean_reply # ""
        /\ NoDecodableContent(payload) =>
              /\ Extracted
              /\ extraction.clean_reply = Placeholder
              /\ extraction.original_body = ""

\* the text a part's own data offer to a field of the body dict
Offer(v, part, field) ==
    IF /\ HasData(part.data)
       /\ \/ field = "plain" /\ part.mimeType = "text/plain"
          \/ field = "html" /\ part.mimeType = "text/html"
          \/ field = "plain" /\ part.mimeType = "message/rfc822" /\ v = "temp"
    THEN part.data.text ELSE ""

\* the non-empty offers to a field, in visit order
Offers(v, parts, field) ==
    SelectSeq([k \in 1..Len(VisitOrder(parts)) |-> Offer(v, VisitOrder(parts)[k], field)],
              NonEmpty)

FirstOffer(v, parts, field) ==
    IF Offers(v, parts, field) = <<>> THEN "" ELSE Offers(v, parts, field)[1]

BodyFields == {"plain", "html"}

\* a frame that is on the stack before and after a step keeps every field
\* that held content
NoOverwrite ==
    \A d \in 1..Len(stack) : \A f \in BodyFields :
        (d <= Len(stack') /\ stack[d].body[f] # "")
            => stack'[d].body[f] = stack[d].body[f]

\* what the walk returns is, for each field, the first content offered
ResultIsFirstOffer ==
    (Extracted /\ payload.hasParts) =>
        \A f \in BodyFields :
            extraction.body_parts[f] = FirstOffer(variant, payload.parts, f)

\* C10: the walk of find_email_parts is first-found-wins per content type:
\* once the plain (or html) field of a call's body holds non-empty content no
\* step of the walk changes it, whether the step visits a later sibling, a
\* part nested in a later sibling, or the own content of the container whose
\* children supplied it; so the value of a field changes at most once, from
\* empty to the first content the walk meets.
C10_FirstFoundWins == [][NoOverwrite]_vars /\ []ResultIsFirstOffer

\* a walk is over in which a part nested in a later sibling offered plain
\* text after an earlier part had supplied it, and the earlier text was kept
C10_Witness_LaterNestedPartIgnored ==
    /\ Extracted
    /\ payload.hasParts
    /\ Len(payload.parts) = 2
    /\ payload.parts[2].hasParts
    /\ Offer(variant, payload.parts[1], "plain") # ""
    /\ Len(Offers(variant, payload.parts, "plain")) >= 2
    /\ extraction.body_parts.plain = Offer(variant, payload.parts[1], "plain")

\* C11: the original_body that extract_latest_reply returns is the captured
\* HTML content when there is any, else the captured plain content, else the
\* empty string; it is never the plain content while HTML content exists.
C11_OriginalBodyPrefersHtml ==
    Extracted =>
        /\ extraction.body_parts.html # ""
              => extraction.original_body = extraction.body_parts.html
        /\ (extraction.body_parts.html = "" /\ extraction.body_parts.plain # "")
              => extraction.original_body = extraction.body_parts.plain
        /\ (extraction.body_parts.html = "" /\ extraction.body_parts.plain = "")
              => extraction.original_body = ""

\* a walk captured plain and HTML content, and the HTML content came back
C11_Witness_BothCapturedHtmlReturned ==
    /\ Extracted
    /\ payload.hasParts
    /\ extraction.body_parts.plain # ""
    /\ extraction.body_parts.html # ""
    /\ extraction.body_parts.plain # extraction.body_parts.html
    /\ extraction.original_body = extraction.body_parts.html

\* C12: decoding a part's content never fails the extraction: the data are
\* decoded as base64url with the padding normalised, else as standard base64,
\* else kept as the raw string, so extract_latest_reply of temp.py and
\* temp2.py always returns and no decode error propagates out of it.
C12_DecodeNeverFailsExtraction ==
    (variant \in {"temp", "temp2"} /\ ExtractionEnded) =>
        /\ Extracted
        /\ (~payload.hasParts /\ HasData(payload.data))
              => extraction.original_body = payload.data.text

\* the text of s before its first boundary line, a boundary line being a line
\* of underscores or a line that begins with "On " and ends with " wrote:";
\* with inner, only a line that has a line break before it and after it counts
LineHead(s, inner) ==
    LET LineFrom(a) ==
            LET Upto(nls) == IF nls = {} THEN Len(s) ELSE Min(nls) - 1
            IN  Slice(s, a, Upto({ k \in a..Len(s) : Ch(s, k) = "\n" }))
        Terminated(a) == \E k \in a..Len(s) : Ch(s, k) = "\n"
        IsBoundary(line) ==
            \/ line # "" /\ CharsOf(line) = {"_"}
            \/ /\ Len(line) >= 10
               /\ Slice(line, 1, 3) = "On "
               /\ Slice(line, Len(line) - 6, Len(line)) = " wrote:"
        Cut(B) == IF B = {} THEN s ELSE Slice(s, 1, Min(B) - 2)
    IN  Cut({ a \in {1} \cup { k + 1 : k \in { j \in 1..Len(s) : Ch(s, j) = "\n" } } :
                /\ IsBoundary(LineFrom(a))
                /\ inner => (a > 1 /\ Terminated(a)) })

\* a call of temp.py or temp2.py returned with plain content only
PlainOnly ==
    /\ variant \in {"temp", "temp2"}
    /\ Extracted
    /\ extraction.body_parts.html = ""
    /\ extraction.body_parts.plain # ""

\* C13 as stated: with plain content only, clean_reply is the trimmed text
\* before the first boundary line (a line of underscores or an "On ... wrote:"
\* line), and nothing at or after that line appears in clean_reply.
C13_NothingAfterFirstBoundaryLine ==
    PlainOnly =>
        extraction.clean_reply =
            IF Strip(LineHead(extraction.body_parts.plain, FALSE)) # ""
            THEN Strip(LineHead(extraction.body_parts.plain, FALSE))
            ELSE Placeholder

\* C13 amended: with plain content only, clean_reply is the trimmed text
\* before the first boundary line that has a line break before it and after
\* it; when that text is blank clean_reply is the whole trimmed plain text,
\* boundary and quoted history included, and the placeholder when the plain
\* text is blank.
C13_TextBeforeFirstInnerBoundary ==
    PlainOnly =>
        extraction.clean_reply =
            IF Strip(LineHead(extraction.body_parts.plain, TRUE)) # ""
            THEN Strip(LineHead(extraction.body_parts.plain, TRUE))
            ELSE IF Strip(extraction.body_parts.plain) # ""
            THEN Strip(extraction.body_parts.plain)
            ELSE Placeholder

\* the example: reply, underscore line, original message
C13_Witness_ReplyBeforeUnderscores ==
    /\ PlainOnly
    /\ extraction.body_parts.plain = "Reply text\n________\nOriginal message"
    /\ extraction.clean_reply = "Reply text"

\* the quoted-reply blocks of a document: the blockquotes whose text holds a
\* reply marker and every div of class gmail_quote
QuotedBlocks(toks, anc) ==
    MarkedBlockquotes(toks, anc)
        \cup { e \in 1..Len(toks) :
                 /\ toks[e].kind = "open"
                 /\ toks[e].name = "div"
                 /\ HasClass(toks[e].attrs, "gmail_quote") }

\* the strings of the document that lie in a quoted-reply block
QuotedStrings(html) ==
    LET In(toks, anc, quoted) ==
            { Strip(toks[j].text) :
                j \in { k \in 1..Len(toks) :
                          /\ toks[k].kind = "text"
                          /\ Strip(toks[k].text) # ""
                          /\ anc[k] \cap quoted # {} } }
        Under(toks, anc) == In(toks, anc, QuotedBlocks(toks, anc))
        Of(toks) == Under(toks, Ancestors(toks))
    IN  Of(HtmlTokens(html, 1))

\* C14: when HTML content exists every quoted-reply block is removed before
\* the text is extracted: clean_reply of temp.py and temp2.py holds no text of
\* an element whose text contains "wrote:" or "from:" nor of any gmail_quote
\* container, however many such blocks the document holds.
C14_NoQuotedTextInCleanReply ==
    (/\ variant \in {"temp", "temp2"}
     /\ Extracted
     /\ extraction.body_parts.html # "") =>
        \A quoted \in QuotedStrings(extraction.body_parts.html) :
            ~Contains(extraction.clean_reply, quoted)

\* C15: loading the configuration is all-or-nothing: a missing rule file or
\* a missing required field, the reserved ID pattern inside subject_patterns
\* included, ends the program at load time; no classify call runs with an
\* incomplete rule set and no missing field is discovered at classification.
C15_LoadIsAllOrNothing ==
    /\ rules.t = "rules" => HasKey(rules.subject_patterns, "ID_PATTERN")
    /\ result # NoResult => HasKey(rules.subject_patterns, "ID_PATTERN")
    /\ result # Exc("KeyError")

ReturnsAsAlone ==
    /\ result # NoResult => result = classify(email, rules)
    /\ ExtractionEnded => extraction = extract_latest_reply(variant, payload)

\* a step leaves the rules, the record and the MIME tree as they were, and a
\* step of one call leaves the state of the other call alone
StepOfOneCall ==
    /\ rules' = rules
    /\ email' = email
    /\ payload' = payload
    /\ variant' = variant
    /\ result' # result => (stack' = stack /\ extraction' = extraction)
    /\ (stack' # stack \/ extraction' # extraction) => result' = result

\* C17: concurrent invocations of classify and extract_latest_reply on
\* independent emails do not interfere: each returns what it would return
\* alone, and no call modifies the rules, its input record, its MIME tree or
\* state of the other call.
C17_NoInterference == []ReturnsAsAlone /\ [][StepOfOneCall]_vars

\* classify has returned while a nested find_email_parts call holds content,
\* and the walk goes on
C17_Witness_ClassifiedDuringWalk ==
    /\ result # NoResult
    /\ InWalk
    /\ Len(stack) > 1
    /\ Top.body.plain # ""

\* C18: strip_html is idempotent: applied to its own output it returns that
\* output, also for texts whose entities decode to markup characters or to
\* further entities.
C18_StripHtmlIdempotent ==
    IsStr(result) => strip_html(result) = result.v

\* the subject of the record is empty or absent
NoSubject == email.subject \in {Missing, None, Str("")}

\* the category entries whose pattern matches the empty string: a pattern
\* without \d matches it when one of its alternatives is empty, a pattern
\* that asks for a digit never does
EmptyMatching(pats) ==
    { k \in 1..Len(pats) :
        /\ pats[k].key # "ID_PATTERN"
        /\ ~Contains(pats[k].pat, "\\d")
        /\ \E a \in 1..Len(Alternatives(pats[k].pat)) : Alternatives(pats[k].pat)[a] = "" }

\* C19: an empty or absent subject yields the category OTHER, unless some
\* configured category pattern matches the empty string: then the first such
\* pattern in declared order gives the category.
C19_EmptySubjectIsOther ==
    (Classified /\ NoSubject) =>
        result.subject_category =
            IF EmptyMatching(rules.subject_patterns) = {} THEN "OTHER"
            ELSE rules.subject_patterns[Min(EmptyMatching(rules.subject_patterns))].key

\* an absent subject under rules with two patterns that match the empty
\* string: the earlier one names the category
C19_Witness_FirstEmptyMatchingWins ==
    /\ Classified
    /\ email.subject = Missing
    /\ Cardinality(EmptyMatching(rules.subject_patterns)) = 2
    /\ result.subject_category = "BLANK"

\* the text the cleaning step leaves, before any fallback
CleaningLeaves(v, body) ==
    IF body.html # "" THEN HtmlReply(v, body.html) ELSE Strip(PlainHead(body.plain))

\* C20: the raw-plain fallback: whenever cleaning yields empty text (the HTML
\* content was all quoted history, or the plain text starts with a boundary)
\* and raw plain content that is not blank exists, clean_reply is the trimmed
\* raw plain content, quoted history included, and not the placeholder; the
\* placeholder is returned only when the trimmed plain content is empty too.
C20_RawPlainFallback ==
    Extracted =>
        /\ (/\ CleaningLeaves(variant, extraction.body_parts) = ""
            /\ Strip(extraction.body_parts.plain) # "")
              => extraction.clean_reply = Strip(extraction.body_parts.plain)
        /\ extraction.clean_reply = Placeholder
              => Strip(extraction.body_parts.plain) = ""

\* the 0-based indices at which the indicator ind occurs in the lowered text t
IndicesOf(t, ind) == { i \in 0..Len(t) : OccursAt(t, Lower(ind), i + 1) }
\* the configured indicators that occur at least once in t
Occurring(t, inds) == { k \in 1..Len(inds) : IndicesOf(t, inds[k]) # {} }
\* the bucket of index i in a text of n characters
BucketOf(i, n) ==
    IF 10 * i < HeaderTenths * n THEN "header"
    ELSE IF 10 * i < BodyTenths * n THEN "body"
    ELSE "footer"

\* C21: the index the Stamp Locator buckets is the maximum, over the
\* configured footer indicators that occur at least once in the text (letter
\* case ignored), of the index of the indicator's last occurrence; earlier
\* occurrences and indicators that do not occur have no influence, and the
\* result is none exactly when no indicator occurs.
C21_MaxOfLastOccurrences ==
    Classified =>
        LET t == StampText(email)
            inds == rules.footer_indicators
            last == { Max(IndicesOf(t, inds[k])) : k \in Occurring(t, inds) }
        IN  /\ result.company_stamp_position = "None" <=> Occurring(t, inds) = {}
            /\ Occurring(t, inds) # {} =>
                  result.company_stamp_position =
                      BucketOf(Max(last), IF Len(t) > 1 THEN Len(t) ELSE 1)

\* two indicators occur, one of them twice, the other does not come first in
\* the text; the last occurrence of the later one decides, and the earliest
\* occurrence lies in another bucket
C21_Witness_LaterIndicatorDecides ==
    /\ Classified
    /\ Cardinality(Occurring(StampText(email), rules.footer_indicators)) = 2
    /\ \E k \in Occurring(StampText(email), rules.footer_indicators) :
          Cardinality(IndicesOf(StampText(email), rules.footer_indicators[k])) = 2
    /\ Max(IndicesOf(StampText(email), rules.footer_indicators[1]))
          < Max(IndicesOf(StampText(email), rules.footer_indicators[2]))
    /\ result.company_stamp_position = "footer"
    /\ BucketOf(Min(IndicesOf(StampText(email), rules.footer_indicators[1])),
                Len(StampText(email))) = "header"

\* the From header of the record, "" when it is absent
FromField(mail) == GetOrEmpty(mail, "from").v

\* C22: sender-domain evidence is case-insensitive on both sides: the
\* from_domain weight is contributed whenever the domain extracted from the
\* From header ends with a configured suffix, both compared without regard to
\* letter case, and is not contributed when no domain can be extracted.
\* (Under the rules of this check the weight is contributed exactly when the
\* record is a vendor match.)
C22_DomainMatchIgnoresCase ==
    Classified =>
        (result.is_jbhunt <=>
            /\ FromDomainOf(FromField(email)) # ""
            /\ \E k \in 1..Len(rules.from_domains) :
                  EndsWith(Lower(FromDomainOf(FromField(email))),
                           Lower(rules.from_domains[k])))

-----------------------------------------------------------------------------
(* Claims about the notifier                                               *)

\* the ids of emails.json are those of the messages only
NotifierTypeOK ==
    poller.pc # "off" =>
        /\ PROCESSED_EMAIL_IDS \subseteq MessageIds
        /\ IdsOf(emails_file) \subseteq MessageIds
        /\ \A m \in MessageIds : telegram.returned[m] <= telegram.delivered[m]

\* the awaited send of the current message raised in this step
SendRaised == poller.pc = "sending" /\ poller'.pc \in {"loop", "retry_sleep"}
\* the awaited send of the current message returned in this step
SendReturned(m) == poller.pc = "sending" /\ m = mid /\ telegram'.returned[m] = telegram.returned[m] + 1
\* the current message is skipped as answered in this step
SkippedAsAnswered(m) ==
    poller.pc \in {"check1", "check2"} /\ m = mid /\ m \in gmail.answered /\ poller'.pc = "loop"

C23_OnlyAfterSendOrSkip ==
    \A m \in MessageIds :
        (m \in PROCESSED_EMAIL_IDS' \ PROCESSED_EMAIL_IDS \/ (HasRecord(emails_file', m) /\ ~HasRecord(emails_file, m)))
            => (SendReturned(m) \/ SkippedAsAnswered(m))
C23_FailureLeavesUnprocessed ==
    SendRaised =>
        /\ mid \notin PROCESSED_EMAIL_IDS' /\ ~HasRecord(emails_file', mid)
        /\ poller'.pc = "retry_sleep" => poller.attempts[mid] = 1
C23_UnprocessedIsAttempted ==
    (poller.pc = "loop" /\ poller' # poller /\ poller.queue # <<>> /\ mid \notin PROCESSED_EMAIL_IDS)
        => (poller'.pc = "meta" /\ poller'.queue = poller.queue)

\* C23: in temp.py an ID enters PROCESSED_EMAIL_IDS, and a record of it
\* enters emails.json, only in the step in which its send returns or in
\* which it is skipped as answered; a send that raises leaves the ID
\* unprocessed and unrecorded, and is followed by a second send only when
\* it was the first one; an unprocessed ID that a poll lists is handled
\* again; no message is sent more than twice in one poll.
C23_ProcessedOnlyAfterSuccess ==
    /\ [](variant = "temp" => \A m \in MessageIds : poller.attempts[m] <= 2)
    /\ [][variant = "temp" =>
            /\ C23_OnlyAfterSendOrSkip
            /\ C23_FailureLeavesUnprocessed
            /\ C23_UnprocessedIsAttempted]_vars

\* the retry of a message succeeded after its first send had raised, and in
\* the same poll the sends of another message raised twice
C23_Witness_RetrySucceededOtherFailed ==
    /\ variant = "temp"
    /\ \E m \in MessageIds, o \in MessageIds :
        /\ poller.attempts[m] = 2 /\ telegram.returned[m] = 1
        /\ m \in PROCESSED_EMAIL_IDS /\ HasRecord(emails_file, m)
        /\ poller.attempts[o] = 2 /\ telegram.returned[o] = 0
        /\ o \notin PROCESSED_EMAIL_IDS /\ ~HasRecord(emails_file, o)
        /\ poller.pc = "sleep"

\* the check made immediately before the send runs in this step, on a
\* message whose thread the owner has answered
AnsweredAtSendCheck ==
    variant = "temp" /\ poller.pc = "check2" /\ poller' # poller /\ mid \in gmail.answered

\* C24: in temp.py a message whose thread's last message is from the owner
\* when the check before the send is made is not sent: it is marked
\* processed and recorded with needs_response False, so that no later poll
\* of the run handles it.
C24_AnsweredNeverNotified ==
    [][AnsweredAtSendCheck =>
        /\ poller'.pc # "sending"
        /\ mid \in PROCESSED_EMAIL_IDS'
        /\ \E k \in 1..Len(emails_file'.data) :
              emails_file'.data[k] = Record(mid, "subject", "False")]_vars

RecordsOf(file, m) == {k \in 1..Len(file.data) : file.data[k].id = m}
\* the coroutine is handling its current message
Handling == poller.pc \in {"meta", "check1", "fetch", "check2", "sending", "retry_sleep"}

\* C25: within a run the send of an ID returns at most once and at most one
\* record of it is appended to emails.json; an ID of PROCESSED_EMAIL_IDS is
\* passed over by every later poll, so it is never fetched, sent or saved
\* again; PROCESSED_EMAIL_IDS only grows.
C25_NotifiedAtMostOnce ==
    /\ [](\A m \in MessageIds :
            /\ telegram.returned[m] <= 1
            /\ Cardinality(RecordsOf(emails_file, m)) <= 1)
    /\ [](Handling => mid \notin PROCESSED_EMAIL_IDS)
    /\ [][/\ PROCESSED_EMAIL_IDS \subseteq PROCESSED_EMAIL_IDS'
          /\ (poller.pc = "loop" /\ poller' # poller /\ poller.queue # <<>>
                  /\ mid \in PROCESSED_EMAIL_IDS)
              => (poller' = Continue(poller) /\ emails_file' = emails_file
                    /\ telegram' = telegram)]_vars

\* a later poll lists a message that was notified in an earlier poll of the
\* run
C25_Witness_ListedAgainAfterNotified ==
    /\ poller.pc = "loop" /\ poller.queue # <<>>
    /\ mid \in PROCESSED_EMAIL_IDS
    /\ telegram.returned[mid] = 1 /\ poller.attempts[mid] = 0
    /\ Cardinality(RecordsOf(emails_file, mid)) = 1

\* C26: whenever handle_decision_callback runs for an ID, emails.json holds
\* a record of it and update_email_record stores the decision: no decision
\* is dropped, under any interleaving of the polling coroutine and the
\* handler.
C26_DecisionNeverDropped ==
    \A m \in MessageIds : applied[m] # "dropped"

\* the records of the file before the step are still there, in their places
RecordsKept ==
    /\ Len(emails_file'.data) >= Len(emails_file.data)
    /\ \A k \in 1..Len(emails_file.data) :
          [emails_file'.data[k] EXCEPT !.needs_response = "None"]
              = [emails_file.data[k] EXCEPT !.needs_response = "None"]
\* a step of the polling coroutine leaves the stored decisions alone
DecisionsKept ==
    poller' # poller =>
        \A k \in 1..Len(emails_file.data) : emails_file'.data[k] = emails_file.data[k]
\* the record of an ID carries the last decision stored for it
LastDecisionStored ==
    \A m \in MessageIds :
        applied[m] \in {"True", "False"} =>
            /\ HasRecord(emails_file, m)
            /\ emails_file.data[FirstWith(emails_file, m)].needs_response = applied[m]

LoadedStayProcessed ==
    /\ run.loaded \subseteq PROCESSED_EMAIL_IDS
    /\ Handling => mid \notin run.loaded
\* between polls every processed ID has its record
ProcessedAreRecorded ==
    poller.pc = "sleep" => PROCESSED_EMAIL_IDS \subseteq IdsOf(emails_file)

\* C28: the IDs recorded in emails.json at startup are in
\* PROCESSED_EMAIL_IDS before the first poll and are not notified again in
\* the new run; and between polls every ID of PROCESSED_EMAIL_IDS has a
\* record in emails.json.
C28_ProcessedMatchesFile ==
    LoadedStayProcessed /\ ProcessedAreRecorded

\* C29: in every variant the polling coroutine survives every error: no
\* error raised while a poll lists the messages or handles one of them ends
\* the loop of polling_task.
C29_PollingNeverStops ==
    poller.pc # "dead"

\* record k is the first record with id m
IsFirstWith(file, k, m) ==
    file.data[k].id = m /\ \A j \in 1..(k - 1) : file.data[j].id # m

\* what a handler run for m, which leaves the decision `stored`, may change
UpdateFrame(m, stored) ==
    /\ PROCESSED_EMAIL_IDS' = PROCESSED_EMAIL_IDS
    /\ emails_file'.exists = emails_file.exists
    /\ Len(emails_file'.data) = Len(emails_file.data)
    /\ \A k \in 1..Len(emails_file.data) :
          IF IsFirstWith(emails_file, k, m)
          THEN emails_file'.data[k] = [emails_file.data[k] EXCEPT !.needs_response = stored]
          ELSE emails_file'.data[k] = emails_file.data[k]
    /\ stored = "dropped" <=> (~emails_file.exists \/ m \notin IdsOf(emails_file))

\* C30: update_email_record(email_id, decision) sets needs_response of the
\* first record with that id and changes nothing else: the other records,
\* the other fields, the order and the number of records stay; without
\* such a record, or without the file, the stored records stay as they
\* are; PROCESSED_EMAIL_IDS is not touched.
C30_UpdateChangesOneField ==
    [][\A m \in MessageIds : applied'[m] # applied[m] => UpdateFrame(m, applied'[m])]_vars

\* the ID is recorded twice; the decision went to the first record and the
\* second one kept its value
C30_Witness_FirstOfTwoUpdated ==
    \E m \in MessageIds :
        /\ Len(emails_file.data) >= 2
        /\ emails_file.data[1].id = m /\ emails_file.data[2].id = m
        /\ applied[m] = "False"
        /\ emails_file.data[1].needs_response = "False"
        /\ emails_file.data[2].needs_response = "True"

-----------------------------------------------------------------------------
Init == InitNotifier \/ InitUpdate \/ InitScore \/ InitSubject \/ InitStamp \/ InitRecord \/ InitLoad \/ InitDomain \/ InitLoop \/ InitStrip \/ InitConcurrent \/ InitExtract
Next == LoadRules \/ Classify \/ NextEmail \/ StripHtml \/ NextExtract
          \/ PollerStep \/ OwnerReplies \/ Callback \/ Restart
Spec == Init /\ [][Next]_vars

SpecScore == InitScore /\ [][Classify]_vars
SpecSubject == InitSubject /\ [][Classify]_vars
SpecStamp == InitStamp /\ [][Classify]_vars
SpecRecord == InitRecord /\ [][Classify]_vars
SpecLoad == InitLoad /\ [][LoadRules \/ Classify]_vars
SpecLoop == InitLoop /\ [][Classify \/ NextEmail]_vars
SpecConcurrent == InitConcurrent /\ [][Classify \/ NextExtract]_vars
SpecStrip == InitStrip /\ [][StripHtml]_vars
SpecDomain == InitDomain /\ [][Classify]_vars
SpecExtract == InitExtract /\ [][NextExtract]_vars
SpecNotify == InitNotifier /\ [][PollerStep \/ OwnerReplies]_vars
SpecDecide == InitNotifier /\ [][PollerStep \/ OwnerReplies \/ Callback]_vars
SpecRestart == InitNotifier /\ [][PollerStep \/ Restart]_vars
SpecUpdate == InitUpdate /\ [][Callback]_vars
=============================================================================
